---------------------------- MODULE Spec2Model ----------------------------
(***************************************************************************)
(* A model of the invoice extraction pipeline: the OCR provider chain,     *)
(* the retry and fallback decorators, the parallel extraction arbiter      *)
(* (DecisionAgent) with the validation engine it scores candidates with,   *)
(* the OCR service with its PDF handling and secondary-language attempt,   *)
(* the OCR quality assessment (OCRAgent), the step metrics of a run        *)
(* (PipelineContext), the task that runs the stages (extract_invoice_task) *)
(* and the engine caches of the OCR providers.                             *)
(*                                                                         *)
(* Units.  Confidences of OCR results are integers in tenths (ConfOne is   *)
(* 1.0) in the provider chain, which only compares them, and the doubles   *)
(* of those tenths in the OCR service, the quality assessment and the      *)
(* task, where totals and means over the pages of a PDF are computed on    *)
(* doubles.  Every float field of an invoice (quantity, prices, amounts)   *)
(* and every OCR parameter is an integer number of hundredths, the float   *)
(* being the double of that decimal.  What the validators and the scorer   *)
(* compute from them (products, sums, differences, scores) is computed on  *)
(* doubles, and so is the duration of a step.  An Optional field is <<>>   *)
(* (None) or <<v>>.                                                        *)
(***************************************************************************)
EXTENDS Integers, Sequences, FiniteSets, TLC

VARIABLES
    chain,      \* the frame of one OCRProviderChain.extract call
    retry,      \* the frame of one call of a with_retry wrapper
    fallback,   \* the frame of one call of a with_fallback wrapper
    decide,     \* the frame of one DecisionAgent.decide call
    scoring,    \* the frame of one call of the validation engine or the scorer
    service,    \* the frame of one OCRService call
    assess,     \* the frame of one OCRAgent.assess_quality call
    retry_params, \* the frame of one OCRAgent._get_retry_params call
    ctx,        \* one PipelineContext and the scopes open on it
    task,       \* the frame of one extract_invoice_task run
    engines     \* the engine caches and the threads calling extract

vars == <<chain, retry, fallback, decide, scoring, service,
         assess, retry_params, ctx, task, engines>>

(***************************************************************************)
(* Small helpers.                                                          *)
(***************************************************************************)
Abs(x) == IF x < 0 THEN -x ELSE x

Min(a, b) == IF a <= b THEN a ELSE b

(***************************************************************************)
(* Python floats.  A float of the program is an IEEE 754 double; the model *)
(* computes on doubles as the interpreter does, each operation rounding    *)
(* its exact result to 53 significant bits, a tie going to the even one.   *)
(***************************************************************************)
\* A natural number of any size: its digits in base Limb, the lowest first
\* and the highest not 0.
Limb == 2^15

RECURSIVE Big(_)
Big(n) == IF n = 0 THEN <<>> ELSE <<n % Limb>> \o Big(n \div Limb)

RECURSIVE BigToNat(_)
BigToNat(a) == IF a = <<>> THEN 0 ELSE a[1] + Limb * BigToNat(Tail(a))

RECURSIVE BigTrim(_)
BigTrim(a) ==
    IF a # <<>> /\ a[Len(a)] = 0 THEN BigTrim(SubSeq(a, 1, Len(a) - 1)) ELSE a

RECURSIVE BigCmpFrom(_, _, _)
BigCmpFrom(a, b, i) ==
    IF i = 0 THEN 0
    ELSE IF a[i] < b[i] THEN -1
    ELSE IF a[i] > b[i] THEN 1
    ELSE BigCmpFrom(a, b, i - 1)

\* -1, 0 or 1 as a < b, a = b or a > b.
BigCmp(a, b) ==
    IF Len(a) < Len(b) THEN -1
    ELSE IF Len(a) > Len(b) THEN 1
    ELSE BigCmpFrom(a, b, Len(a))

RECURSIVE BigAddCarry(_, _, _)
BigAddCarry(a, b, carry) ==
    IF a = <<>> /\ b = <<>> THEN Big(carry)
    ELSE LET x == (IF a = <<>> THEN 0 ELSE a[1]) + (IF b = <<>> THEN 0 ELSE b[1])
                  + carry
         IN  <<x % Limb>> \o BigAddCarry(IF a = <<>> THEN <<>> ELSE Tail(a),
                                         IF b = <<>> THEN <<>> ELSE Tail(b),
                                         x \div Limb)

BigAdd(a, b) == BigAddCarry(a, b, 0)

RECURSIVE BigSubBorrow(_, _, _)
BigSubBorrow(a, b, borrow) ==
    IF a = <<>> THEN <<>>
    ELSE LET x == a[1] - (IF b = <<>> THEN 0 ELSE b[1]) - borrow
         IN  <<x % Limb>> \o BigSubBorrow(Tail(a),
                                          IF b = <<>> THEN <<>> ELSE Tail(b),
                                          IF x < 0 THEN 1 ELSE 0)

\* a - b, for a >= b.
BigSub(a, b) == BigTrim(BigSubBorrow(a, b, 0))

RECURSIVE BigTimesCarry(_, _, _)
BigTimesCarry(a, k, carry) ==
    IF a = <<>> THEN Big(carry)
    ELSE LET x == a[1] * k + carry
         IN  <<x % Limb>> \o BigTimesCarry(Tail(a), k, x \div Limb)

\* a * k, for k < Limb.
BigTimes(a, k) == IF k = 0 THEN <<>> ELSE BigTimesCarry(a, k, 0)

RECURSIVE BigMul(_, _)
BigMul(a, b) ==
    IF a = <<>> \/ b = <<>> THEN <<>>
    ELSE BigAdd(BigTimes(b, a[1]), BigTrim(<<0>> \o BigMul(Tail(a), b)))

\* <<a \div d, a % d>>, for 0 < d < 2 * Limb.
RECURSIVE BigDivMod(_, _)
BigDivMod(a, d) ==
    IF a = <<>> THEN <<<<>>, 0>>
    ELSE LET high == BigDivMod(Tail(a), d)
             x    == high[2] * Limb + a[1]
         IN  <<BigTrim(<<x \div d>> \o high[1]), x % d>>

\* a * 2^n
BigShl(a, n) ==
    IF a = <<>> THEN <<>>
    ELSE [i \in 1..(n \div 15) |-> 0] \o BigTimes(a, 2^(n % 15))

\* a \div 2^n
BigShr(a, n) ==
    IF Len(a) <= n \div 15 THEN <<>>
    ELSE BigDivMod(SubSeq(a, n \div 15 + 1, Len(a)), 2^(n % 15))[1]

RECURSIVE BitsOf(_)
BitsOf(n) == IF n = 0 THEN 0 ELSE 1 + BitsOf(n \div 2)

\* The number of binary digits of a.
BigBits(a) == IF a = <<>> THEN 0 ELSE 15 * (Len(a) - 1) + BitsOf(a[Len(a)])

\* 2^n
BigPow2(n) == [i \in 1..(n \div 15) |-> 0] \o <<2^(n % 15)>>

\* The quotient q of a division rounded to the nearest: c is -1, 0 or 1 as
\* the remainder is below, at or above the half, and a tie with no `more`
\* beyond it goes to the even.
BigNearest(q, c, more) ==
    IF c > 0 \/ (c = 0 /\ (more \/ (q # <<>> /\ q[1] % 2 = 1)))
    THEN BigAdd(q, <<1>>)
    ELSE q

\* a \div 2^n rounded to the nearest, given q = a \div 2^n.
BigShrNearestOf(a, n, more, q) ==
    BigNearest(q, BigCmp(BigSub(a, BigShl(q, n)), BigPow2(n - 1)), more)

\* a \div 2^n rounded to the nearest, a tie (no `more` beyond a) to the even.
BigShrNearest(a, n, more) ==
    IF n = 0 THEN a ELSE BigShrNearestOf(a, n, more, BigShr(a, n))

\* A double: (-1)^neg * m * 2^e, with 2^52 <= m < 2^53, or zero.
FloatZero == [neg |-> FALSE, m |-> <<>>, e |-> 0]

\* The double (-1)^neg * r * 2^e of a number r rounded to 53 binary digits:
\* rounding up to 2^53 takes one digit more.
FloatOfRounded(neg, r, e) ==
    IF BigBits(r) > 53
    THEN [neg |-> neg, m |-> BigShr(r, 1), e |-> e + 1]
    ELSE [neg |-> neg, m |-> r, e |-> e]

\* The double nearest to (-1)^neg * (m * 2^e + a bit `more`), m a number
\* of `bits` binary digits.
FloatOfBits(neg, m, e, more, bits) ==
    IF bits = 0 THEN FloatZero
    ELSE IF bits <= 53
    THEN [neg |-> neg, m |-> BigShl(m, 53 - bits), e |-> e - (53 - bits)]
    ELSE FloatOfRounded(neg, BigShrNearest(m, bits - 53, more), e + bits - 53)

\* The double nearest to (-1)^neg * (m * 2^e + a bit `more`).
FloatOf(neg, m, e, more) == FloatOfBits(neg, m, e, more, BigBits(m))

\* The double nearest to a quotient, of qr = <<the quotient \div 2^e, the
\* remainder of the division>>.
FloatOfDivMod(neg, qr, e) == FloatOf(neg, qr[1], e, qr[2] # 0)

\* float(n) of an int n
FloatInt(n) == FloatOf(n < 0, Big(Abs(n)), 0, FALSE)

\* n / d of two ints, 0 < d < 2 * Limb: the double nearest to the quotient.
\* The literal of a decimal is that double too: 0.15 is FloatDiv(15, 100).
FloatDiv(n, d) == FloatOfDivMod(n < 0, BigDivMod(BigShl(Big(Abs(n)), 75), d), -75)

\* x / d of a float and an int, 0 < d < 2 * Limb.
FloatDivInt(x, d) == FloatOfDivMod(x.neg, BigDivMod(BigShl(x.m, 30), d), x.e - 30)

FloatNeg(x) == IF x.m = <<>> THEN x ELSE [x EXCEPT !.neg = ~@]

FloatAbs(x) == [x EXCEPT !.neg = FALSE]

\* (-1)^xneg * a * 2^e + (-1)^yneg * b * 2^e, with c = BigCmp(a, b).
FloatAddCompared(xneg, a, yneg, b, e, c) ==
    FloatOf(IF xneg = yneg \/ c > 0 THEN xneg ELSE yneg,
            IF xneg = yneg THEN BigAdd(a, b)
            ELSE IF c > 0 THEN BigSub(a, b)
            ELSE IF c < 0 THEN BigSub(b, a)
            ELSE <<>>,
            e, FALSE)

FloatAddAligned(xneg, a, yneg, b, e) ==
    FloatAddCompared(xneg, a, yneg, b, e, BigCmp(a, b))

\* x * y
FloatMul(x, y) == FloatOf(x.neg # y.neg, BigMul(x.m, y.m), x.e + y.e, FALSE)

\* x + y
FloatAdd(x, y) ==
    IF x.m = <<>> THEN y
    ELSE IF y.m = <<>> THEN x
    ELSE FloatAddAligned(x.neg, BigShl(x.m, x.e - Min(x.e, y.e)),
                         y.neg, BigShl(y.m, y.e - Min(x.e, y.e)), Min(x.e, y.e))

\* x - y
FloatSub(x, y) == FloatAdd(x, FloatNeg(y))

\* -1, 0 or 1 as |x| < |y|, |x| = |y| or |x| > |y|.
FloatCmpAbs(x, y) ==
    IF x.m = <<>> THEN (IF y.m = <<>> THEN 0 ELSE -1)
    ELSE IF y.m = <<>> THEN 1
    ELSE IF x.e < y.e THEN -1
    ELSE IF x.e > y.e THEN 1
    ELSE BigCmp(x.m, y.m)

\* x < y
FloatLess(x, y) ==
    IF x.neg /\ ~y.neg THEN x.m # <<>> \/ y.m # <<>>
    ELSE IF ~x.neg /\ y.neg THEN FALSE
    ELSE IF x.neg THEN FloatCmpAbs(x, y) > 0
    ELSE FloatCmpAbs(x, y) < 0

\* x <= y
FloatLeq(x, y) == ~FloatLess(y, x)

\* The whole number nearest to n * 2^x.e, with the sign of x.
FloatRoundScaled(x, n) ==
    (IF x.neg THEN -1 ELSE 1)
    * BigToNat(IF x.e >= 0 THEN BigShl(n, x.e) ELSE BigShrNearest(n, -x.e, FALSE))

\* round(x, digits), as the whole number of units of 10^-digits that it is:
\* the decimal of that many digits nearest to the exact value of the double,
\* a tie going to the even one.  The float that round returns is
\* FloatDiv of that number and 10^digits.
FloatRound(x, digits) == FloatRoundScaled(x, BigMul(x.m, Big(10^digits)))

\* What one more float x adds to the compensation of sum(), t the new
\* running total f_result + x: (f_result - t) + x when
\* fabs(f_result) >= fabs(x), else (x - t) + f_result.
SumCompensation(f_result, x, t) ==
    IF FloatLeq(FloatAbs(x), FloatAbs(f_result))
    THEN FloatAdd(FloatSub(f_result, t), x)
    ELSE FloatAdd(FloatSub(x, t), f_result)

\* One float more in sum(): the running total and the compensation after it.
SumStep(f_result, c, x, t) ==
    [f_result |-> t, c |-> FloatAdd(c, SumCompensation(f_result, x, t))]

RECURSIVE SumFrom(_, _)
\* The float loop of sum() from the running total and compensation acc on:
\* at the end the compensation is added if it is not zero.
SumFrom(acc, xs) ==
    IF xs = <<>>
    THEN IF acc.c.m # <<>> THEN FloatAdd(acc.f_result, acc.c) ELSE acc.f_result
    ELSE SumFrom(SumStep(acc.f_result, acc.c, Head(xs),
                         FloatAdd(acc.f_result, Head(xs))),
                 Tail(xs))

\* sum(xs) of floats from the int 0: the compensated summation of the
\* interpreter (Neumaier's variant of Kahan's algorithm, sum() of
\* CPython 3.12 and later), which starts at 0 + xs[0].  For up to two
\* floats it is the float of their exact sum, as adding them one by one is.
SumFloats(xs) ==
    IF xs = <<>> THEN FloatZero
    ELSE SumFrom([f_result |-> FloatAdd(FloatZero, Head(xs)), c |-> FloatZero],
                 Tail(xs))

\* The literal of a decimal of one digit, k / 10, and of two, k / 100.
Tenths(k) == FloatDiv(k, 10)

Hundredths(k) == FloatDiv(k, 100)

FloatOne == FloatInt(1)

\* min(x, y) of Python: y only when y < x.
FloatMin(x, y) == IF FloatLess(y, x) THEN y ELSE x

\* A function as the table of its values, each computed once.
Tabulated(f) == f @@ <<>>

\* table[key] where the table has the key, and `value` where it has not.
Looked(table, key, value) == IF key \in DOMAIN table THEN table[key] ELSE value

(***************************************************************************)
(* OCRResult and the OCR provider chain.                                   *)
(***************************************************************************)
\* OCRResult.confidence is a float in [0, 1]: ConfOne is 1.0 in tenths.
ConfOne == 10

ConfValues == 0..ConfOne

\* OCRProviderChain.__init__(min_confidence=0.5).
DefaultMinConfidence == 5

\* Settings.min_confidence_threshold = 0.7, what OCRService builds its chain with.
SettingsMinConfidence == 7

MinConfidenceValues == {DefaultMinConfidence, SettingsMinConfidence}

\* self.providers = [PaddleOCRProvider(), EasyOCRProvider()], by name.
Providers == <<"paddleocr", "easyocr">>

Texts == {"", "text"}

OCRResult(text, confidence, language, provider) ==
    [text |-> text, confidence |-> confidence, language |-> language,
     provider |-> provider, retry_count |-> 0]

NoOCRResult == OCRResult("", 0, "unknown", "unknown")

\* What one provider.extract(image_path, lang) call can do: return an
\* OCRResult of its own, raise an engine error, or be interrupted by the
\* SoftTimeLimitExceeded that the scheduler raises in the task at its soft
\* time limit (kind "timeout"; an Exception subclass like the engine errors).
ProviderOutcomes(name, lang) ==
    {[kind |-> "raise", result |-> NoOCRResult],
     [kind |-> "timeout", result |-> NoOCRResult]}
    \cup {[kind |-> "ok", result |-> OCRResult(t, c, lang, name)] :
             t \in Texts, c \in ConfValues}

\* A faulty variant of MeetsThreshold: the comparison is strict.
MeetsThresholdStrict(result, min_confidence) == result.confidence > min_confidence

\* if result.confidence >= self.min_confidence
MeetsThreshold(result, min_confidence) == result.confidence >= min_confidence

\* A maximum that takes the last of the maximal elements.
MaxByConfidenceLast(results) ==
    LET i == CHOOSE k \in 1..Len(results) :
                 /\ \A j \in 1..Len(results) :
                        results[j].confidence <= results[k].confidence
                 /\ \A j \in (k + 1)..Len(results) :
                        results[j].confidence < results[k].confidence
    IN  results[i]

\* max(results, key=lambda r: r.confidence): the first of the maximal elements.
MaxByConfidence(results) ==
    LET i == CHOOSE k \in 1..Len(results) :
                 /\ \A j \in 1..Len(results) :
                        results[j].confidence <= results[k].confidence
                 /\ \A j \in 1..(k - 1) :
                        results[j].confidence < results[k].confidence
    IN  results[i]

NoReturn == [kind |-> "none", result |-> NoOCRResult, error |-> ""]

\* A faulty variant of ChainExhausted: the last retained result, not the best.
ChainExhaustedLast(results) ==
    IF results # <<>>
    THEN [kind |-> "return", result |-> results[Len(results)], error |-> ""]
    ELSE [kind |-> "raise", result |-> NoOCRResult, error |-> "All OCR providers failed"]

\* The end of OCRProviderChain.extract, after the loop.
ChainExhausted(results) ==
    IF results # <<>>
    THEN [kind |-> "return", result |-> MaxByConfidence(results), error |-> ""]
    ELSE [kind |-> "raise", result |-> NoOCRResult, error |-> "All OCR providers failed"]

ChainIdle(min_confidence) ==
    [pc |-> "idle", min_confidence |-> min_confidence, lang |-> "en", idx |-> 1,
     results |-> <<>>, invoked |-> <<>>, ret |-> NoReturn]

\* chain.extract(image_path, lang) is entered: results = [].
ChainExtract ==
    /\ chain.pc = "idle"
    /\ \E lang \in {"en", "tr"} :
          chain' = [chain EXCEPT !.pc = "loop", !.lang = lang, !.idx = 1,
                                 !.results = <<>>]

\* One iteration of the loop over self.providers; after the last provider
\* the code falls through to the end of the method.
ChainIteration(o) ==
    LET name     == Providers[chain.idx]
        invoked  == Append(chain.invoked, [provider |-> name, outcome |-> o])
        results  == IF o.kind = "ok" THEN Append(chain.results, o.result)
                    ELSE chain.results
        last     == chain.idx = Len(Providers)
    IN  IF o.kind = "ok" /\ MeetsThreshold(o.result, chain.min_confidence)
        THEN [chain EXCEPT !.pc = "done", !.invoked = invoked, !.results = results,
                           !.ret = [kind |-> "return", result |-> o.result,
                                    error |-> ""]]
        ELSE IF last
        THEN [chain EXCEPT !.pc = "done", !.invoked = invoked, !.results = results,
                           !.ret = ChainExhausted(results)]
        ELSE [chain EXCEPT !.idx = @ + 1, !.invoked = invoked, !.results = results]

ChainTryProvider ==
    /\ chain.pc = "loop"
    /\ \E o \in ProviderOutcomes(Providers[chain.idx], chain.lang) :
          chain' = ChainIteration(o)


(***************************************************************************)
(* with_retry and with_fallback (app/core/retry.py).                       *)
(***************************************************************************)
\* The exception types an operation raises, and the `exceptions` tuples a
\* decorator is built with: the default (Exception,) and a narrower one.
ExcTypes == {"IOError", "ValueError"}

ExceptionTuples == {{"Exception"}, {"IOError"}}

\* except exceptions as e: the clause catches e when its type is in the tuple.
IsCaught(type, exceptions) == "Exception" \in exceptions \/ type \in exceptions

MaxAttemptsBound == 3

MaxDelay == 2

MaxBackoff == 2

NoOutcome == [kind |-> "none", value |-> "", type |-> "", id |-> 0]

Returned(v) == [kind |-> "return", value |-> v, type |-> "", id |-> 0]

\* An exception object: its type and the call that raised it.
Raised(type, id) == [kind |-> "raise", value |-> "", type |-> type, id |-> id]

\* What the n-th call of the wrapped function can do.
FuncOutcomes(n) == {Returned("value")} \cup {Raised(t, n) : t \in ExcTypes}

RetryIdle(max_attempts, delay, backoff, exceptions) ==
    [pc |-> "idle", max_attempts |-> max_attempts, delay |-> delay,
     backoff |-> backoff, exceptions |-> exceptions, attempt |-> 0,
     current_delay |-> 0, last_exception |-> NoOutcome, events |-> <<>>,
     ret |-> NoOutcome]

CallEvent(o) == [op |-> "call", outcome |-> o, seconds |-> 0]

SleepEvent(d) == [op |-> "sleep", outcome |-> NoOutcome, seconds |-> d]

\* A faulty variant of SleepsAfter: it sleeps after the last attempt too.
SleepsAfterAlways(attempt, max_attempts) == attempt <= max_attempts

\* if attempt < max_attempts: sleep and multiply the delay.
SleepsAfter(attempt, max_attempts) == attempt < max_attempts

\* The wrapper is entered: last_exception = None, current_delay = delay.  With
\* max_attempts < 1 the range is empty and `raise last_exception` raises None,
\* which Python turns into a TypeError.
RetryCall ==
    /\ retry.pc = "idle"
    /\ retry' = IF retry.max_attempts >= 1
                THEN [retry EXCEPT !.pc = "loop", !.attempt = 1,
                                   !.current_delay = retry.delay]
                ELSE [retry EXCEPT !.pc = "done", !.current_delay = retry.delay,
                                   !.ret = Raised("TypeError", 0)]

\* One iteration of `for attempt in range(1, max_attempts + 1)` up to the
\* call of time.sleep (await asyncio.sleep in the async wrapper): func is
\* called; a caught failure is kept in last_exception and, if another
\* attempt is left, the wrapper starts to sleep.  After the last iteration
\* the code reaches `raise last_exception`.
RetryIteration(o) ==
    LET called == Append(retry.events, CallEvent(o))
    IN  IF o.kind = "return"
        THEN [retry EXCEPT !.pc = "done", !.events = called, !.ret = o]
        ELSE IF ~IsCaught(o.type, retry.exceptions)
        THEN [retry EXCEPT !.pc = "done", !.events = called, !.ret = o]
        ELSE IF SleepsAfter(retry.attempt, retry.max_attempts)
        THEN [retry EXCEPT !.pc = "sleep", !.last_exception = o,
                           !.events = called]
        ELSE [retry EXCEPT !.pc = "done", !.last_exception = o,
                           !.events = called, !.ret = o]

RetryAttempt ==
    /\ retry.pc = "loop"
    /\ \E o \in FuncOutcomes(retry.attempt) : retry' = RetryIteration(o)

\* time.sleep(current_delay) returns: current_delay *= backoff, and the loop
\* goes to its next attempt, or past its end to `raise last_exception`.
RetrySlept ==
    /\ retry.pc = "sleep"
    /\ retry' = IF retry.attempt < retry.max_attempts
                THEN [retry EXCEPT
                         !.pc = "loop",
                         !.events = Append(@, SleepEvent(retry.current_delay)),
                         !.current_delay = @ * retry.backoff,
                         !.attempt = @ + 1]
                ELSE [retry EXCEPT
                         !.pc = "done",
                         !.events = Append(@, SleepEvent(retry.current_delay)),
                         !.current_delay = @ * retry.backoff,
                         !.ret = retry.last_exception]

FallbackIdle(exceptions, func_is_coroutine, fallback_is_coroutine) ==
    [pc |-> "idle", exceptions |-> exceptions,
     func_is_coroutine |-> func_is_coroutine,
     fallback_is_coroutine |-> fallback_is_coroutine,
     args |-> 0, calls |-> <<>>, ret |-> NoOutcome]

MaxArg == 2

\* What calling fallback_fn(*args, **kwargs) gives.  The async wrapper awaits a
\* coroutine function; the sync wrapper calls it plainly, and the plain call
\* of a coroutine function returns the coroutine object without running it.
FallbackFnOutcomes(f) ==
    IF ~f.func_is_coroutine /\ f.fallback_is_coroutine
    THEN {Returned("coroutine")}
    ELSE {Returned("fallback value")} \cup {Raised(t, 1) : t \in ExcTypes}

\* The wrapper is called with some arguments.
FallbackCall ==
    /\ fallback.pc = "idle"
    /\ \E a \in 1..MaxArg : fallback' = [fallback EXCEPT !.pc = "func", !.args = a]

\* A faulty variant of FallbackArgs: the fallback is called without them.
FallbackArgsDropped(args) == 0

\* return fallback_fn(*args, **kwargs): the arguments the fallback is given.
FallbackArgs(args) == args

\* try: return func(*args, **kwargs); except exceptions: ...
FallbackAfterFunc(o) ==
    LET called == Append(fallback.calls, [fn |-> "func", args |-> fallback.args,
                                          outcome |-> o])
    IN  IF o.kind = "raise" /\ IsCaught(o.type, fallback.exceptions)
        THEN [fallback EXCEPT !.pc = "fallback_fn", !.calls = called]
        ELSE [fallback EXCEPT !.pc = "done", !.calls = called, !.ret = o]

FallbackFunc ==
    /\ fallback.pc = "func"
    /\ \E o \in FuncOutcomes(1) : fallback' = FallbackAfterFunc(o)

FallbackFn ==
    /\ fallback.pc = "fallback_fn"
    /\ \E o \in FallbackFnOutcomes(fallback) :
          fallback' = [fallback EXCEPT
                          !.pc = "done",
                          !.calls = Append(@, [fn |-> "fallback_fn",
                                               args |-> FallbackArgs(fallback.args),
                                               outcome |-> o]),
                          !.ret = o]

(***************************************************************************)
(* Invoice candidates and the validation engine (app/core/validators.py).  *)
(* A float field of an invoice is given by its number of hundredths, the   *)
(* float being the double of that decimal; what round(x, 2) returns is     *)
(* given the same way.  Any other float is the double itself.              *)
(***************************************************************************)
None == <<>>

Some(v) == <<v>>

\* Python truthiness of an Optional[float]: None and 0.0 are both falsy.
Truthy(f) == f # None /\ f[1] # 0

InvoiceItem(product_name, quantity, unit_price, total_price) ==
    [product_name |-> product_name, quantity |-> quantity,
     unit_price |-> unit_price, total_price |-> total_price, description |-> None]

InvoiceGeneral(invoice_number, date, supplier_name, total_amount, currency) ==
    [invoice_number |-> invoice_number, date |-> date,
     supplier_name |-> supplier_name, total_amount |-> total_amount,
     currency |-> currency]

InvoiceExtraction(general_fields, items) ==
    [general_fields |-> general_fields, items |-> items]

\* The most items a candidate of the model has.
MaxItems == 2

\* The items of the candidates of the model: 2 x 10.0 with total 20.0, 25.0,
\* 20.01 and none; a quantity 0.0, present and falsy for `not all([...])`;
\* an item with no field; an item a cent off that the float test accepts.
FullItem == InvoiceItem(Some("widget"), Some(200), Some(1000), Some(2000))

WrongItem == InvoiceItem(Some("widget"), Some(200), Some(1000), Some(2500))

BlankItem == InvoiceItem(None, None, None, None)

ZeroQuantityItem == InvoiceItem(Some("widget"), Some(0), Some(1000), Some(2000))

NoTotalItem == InvoiceItem(Some("widget"), Some(200), Some(1000), None)

CentOffItem == InvoiceItem(Some("widget"), Some(200), Some(1000), Some(2001))

\* 1.0 x 1.13 with total 1.12: the doubles of 1.13 and 1.12 are
\* 0.00999999999999979 apart.
NearCentItem == InvoiceItem(Some("widget"), Some(100), Some(113), Some(112))

ItemPool ==
    {FullItem, WrongItem, BlankItem, ZeroQuantityItem, NoTotalItem, CentOffItem,
     NearCentItem}

\* total_amount of the header: None, 0.0, 20.0, 21.0, 21.6, 23.6, 24.6, 150.0.
TotalAmounts ==
    {None, Some(0), Some(2000), Some(2100), Some(2160), Some(2360), Some(2460),
     Some(15000)}

\* validate_tax(data, tax_rate=0.18), in hundredths.
DefaultTaxRate == 18

\* tax_rate of validate_tax: the default 0.18, and 0.08.
TaxRates == {8, DefaultTaxRate}

\* round(x, 2) of a float, in hundredths.
Round2(x) == FloatRound(x, 2)

\* The verdict of validate_item_calculation from `expected` and `actual`:
\* is_valid = abs(expected - actual) < 0.01.
item_verdict(expected, actual) ==
    [valid |-> FloatLess(FloatAbs(FloatSub(Hundredths(expected), Hundredths(actual))),
                         Hundredths(1)),
     skipped |-> FALSE, expected |-> Some(expected), actual |-> Some(actual)]

\* validate_item_calculation on the three floats of an item, without the
\* index and the name of the product.
item_calculation(quantity, unit_price, total_price) ==
    IF ~(Truthy(quantity) /\ Truthy(unit_price) /\ Truthy(total_price))
    THEN [valid |-> TRUE, skipped |-> TRUE, expected |-> None, actual |-> None]
    ELSE item_verdict(Round2(FloatMul(Hundredths(quantity[1]),
                                      Hundredths(unit_price[1]))),
                      Round2(Hundredths(total_price[1])))

\* item_calculation on the items of the model.
ItemCalculations ==
    Tabulated([k \in {<<i.quantity, i.unit_price, i.total_price>> : i \in ItemPool}
                  |-> item_calculation(k[1], k[2], k[3])])

\* The dict validate_item_calculation returns, of the calculation on the
\* floats of the item.
item_validation(item, index, calculation) ==
    [item_index |-> index, product |-> item.product_name,
     valid |-> calculation.valid, skipped |-> calculation.skipped,
     expected |-> calculation.expected, actual |-> calculation.actual]

validate_item_calculation(item, index) ==
    item_validation(item, index,
                    Looked(ItemCalculations,
                           <<item.quantity, item.unit_price, item.total_price>>,
                           item_calculation(item.quantity, item.unit_price,
                                            item.total_price)))

\* [item.total_price for item in items if item.total_price is not None]
PresentTotalPrices(items) ==
    LET present == SelectSeq(items, LAMBDA item : item.total_price # None)
    IN  [k \in 1..Len(present) |-> present[k].total_price[1]]

\* FloatSum: sum(prices) of the prices in hundredths.
FloatSum(prices) == SumFloats([k \in 1..Len(prices) |-> Hundredths(prices[k])])

\* The verdict of validate_tax from items_total, actual_total and
\* expected_with_tax: tax_diff = abs(expected_with_tax - actual_total) and
\* no_tax_diff = abs(items_total - actual_total), each accepted below 1.
tax_verdict(items_total, actual_total, expected_with_tax) ==
    IF FloatLess(FloatAbs(FloatSub(Hundredths(expected_with_tax),
                                   Hundredths(actual_total))), FloatOne)
    THEN [valid |-> TRUE, skipped |-> FALSE, vat_applied |-> Some(TRUE),
          items_subtotal |-> Some(items_total),
          expected_with_tax |-> Some(expected_with_tax),
          actual_total |-> Some(actual_total)]
    ELSE IF FloatLess(FloatAbs(FloatSub(items_total, Hundredths(actual_total))),
                      FloatOne)
    THEN [valid |-> TRUE, skipped |-> FALSE, vat_applied |-> Some(FALSE),
          items_subtotal |-> Some(items_total),
          expected_with_tax |-> None,
          actual_total |-> Some(actual_total)]
    ELSE [valid |-> FALSE, skipped |-> FALSE, vat_applied |-> None,
          items_subtotal |-> Some(items_total),
          expected_with_tax |-> Some(expected_with_tax),
          actual_total |-> Some(actual_total)]

\* validate_tax from items_total, the sum of the present total prices.
tax_of_total(items_total, total_amount, tax_rate) ==
    IF FloatLeq(items_total, FloatZero) \/ ~Truthy(total_amount)
    THEN [valid |-> TRUE, skipped |-> TRUE, vat_applied |-> None,
          items_subtotal |-> None, expected_with_tax |-> None,
          actual_total |-> None]
    ELSE tax_verdict(items_total, total_amount[1],
                     Round2(FloatMul(items_total,
                                     FloatAdd(FloatOne, Hundredths(tax_rate)))))

\* validate_tax on the present total prices of the items and the
\* total_amount of the header.
tax_validation(prices, total_amount, tax_rate) ==
    tax_of_total(FloatSum(prices), total_amount, tax_rate)

\* The lists of present total prices of at most MaxItems items of the model.
TotalPriceLists ==
    UNION {[1..n -> {i.total_price[1] : i \in {j \in ItemPool : j.total_price # None}}] :
              n \in 0..MaxItems}

\* tax_validation on the candidates of the model.
TaxValidations ==
    Tabulated([k \in TotalPriceLists \X TotalAmounts \X TaxRates
                  |-> tax_validation(k[1], k[2], k[3])])

tax_looked(prices, total_amount, tax_rate) ==
    Looked(TaxValidations, <<prices, total_amount, tax_rate>>,
           tax_validation(prices, total_amount, tax_rate))

validate_tax(data, tax_rate) ==
    tax_looked(PresentTotalPrices(data.items), data.general_fields.total_amount,
               tax_rate)

\* item_validations of validate_invoice: the verdict of each item, in order.
item_validations_of(items) ==
    [i \in 1..Len(items) |-> validate_item_calculation(items[i], i - 1)]

\* The dict of validate_invoice with all_valid from the item verdicts alone.
invoice_validation_items_only(item_validations, tax_validation_) ==
    [item_calculations |-> item_validations,
     tax_validation |-> tax_validation_,
     all_valid |-> \A i \in 1..Len(item_validations) : item_validations[i].valid]

validate_invoice_items_only(data) ==
    invoice_validation_items_only(item_validations_of(data.items),
                                  validate_tax(data, DefaultTaxRate))

\* The dict validate_invoice returns, of the item verdicts and the tax
\* verdict.
invoice_validation(item_validations, tax_validation_) ==
    [item_calculations |-> item_validations,
     tax_validation |-> tax_validation_,
     all_valid |-> /\ \A i \in 1..Len(item_validations) : item_validations[i].valid
                   /\ tax_validation_.valid]

validate_invoice(data) ==
    invoice_validation(item_validations_of(data.items),
                       validate_tax(data, DefaultTaxRate))

(***************************************************************************)
(* DecisionAgent (app/services/agents/decision_agent.py).                  *)
(***************************************************************************)
\* Counts every field, None or not.
CountPresentAll(fields) == Len(fields)

CountPresent(fields) == Cardinality({i \in 1..Len(fields) : fields[i] # None})

RECURSIVE ItemFieldsPresent(_)
ItemFieldsPresent(items) ==
    IF items = <<>> THEN 0
    ELSE CountPresent(<<Head(items).product_name, Head(items).quantity,
                        Head(items).unit_price, Head(items).total_price>>)
         + ItemFieldsPresent(Tail(items))

\* score = 0.0; score += completeness * 0.3
header_score(present) ==
    FloatAdd(FloatZero, FloatMul(FloatDiv(present, 5), Tenths(3)))

\* if extraction.items: score += 0.2; score += item_completeness * 0.1
items_score(score, items, fields) ==
    IF items > 0
    THEN FloatAdd(FloatAdd(score, Tenths(2)),
                  FloatMul(FloatDiv(fields, items * 4), Tenths(1)))
    ELSE score

\* if validation["tax_validation"]["valid"]: score += 0.2
tax_score(score, tax_valid) ==
    IF tax_valid THEN FloatAdd(score, Tenths(2)) ELSE score

\* if validation["all_valid"]: score += 0.4; else the share of the valid
\* item verdicts and the tax verdict.
validation_score(score, all_valid, calcs, valid_items, tax_valid) ==
    IF all_valid THEN FloatAdd(score, Tenths(4))
    ELSE tax_score(IF calcs > 0
                   THEN FloatAdd(score, FloatMul(FloatDiv(valid_items, calcs),
                                                 Tenths(2)))
                   ELSE score,
                   tax_valid)

\* The score of _calculate_score from what it counted: the header fields
\* present, the items, the item fields present, all_valid, the item verdicts,
\* the valid ones among them, and whether the tax verdict is valid.
score_of(present, items, fields, all_valid, calcs, valid_items, tax_valid) ==
    FloatMin(validation_score(items_score(header_score(present), items, fields),
                              all_valid, calcs, valid_items, tax_valid),
             FloatOne)

\* score_of on what _calculate_score can count on a candidate of at most
\* MaxItems items.
Scores ==
    Tabulated([k \in {c \in (0..5) \X (0..MaxItems) \X (0..4 * MaxItems) \X BOOLEAN
                                \X (0..MaxItems) \X (0..MaxItems) \X BOOLEAN :
                         /\ c[3] <= 4 * c[2]
                         /\ c[5] = c[2]
                         /\ c[6] <= c[5]
                         /\ c[4] <=> (c[6] = c[5] /\ c[7])}
                  |-> score_of(k[1], k[2], k[3], k[4], k[5], k[6], k[7])])

\* What _calculate_score counts on a candidate and the verdicts of
\* validate_invoice on it, in the order of the parameters of score_of.
Counted(general, items, validations) ==
    <<CountPresent(<<general.invoice_number, general.date, general.supplier_name,
                     general.total_amount, general.currency>>),
      Len(items),
      ItemFieldsPresent(items),
      validations.all_valid,
      Len(validations.item_calculations),
      Cardinality({i \in 1..Len(validations.item_calculations) :
                      validations.item_calculations[i].valid}),
      validations.tax_validation.valid>>

score_counted(c) ==
    Looked(Scores, c, score_of(c[1], c[2], c[3], c[4], c[5], c[6], c[7]))

\* DecisionAgent._calculate_score
calculate_score(extraction) ==
    score_counted(Counted(extraction.general_fields, extraction.items,
                          validate_invoice(extraction)))

\* The candidates a backend returns in the model.  Their scores are 1.0, 0.7,
\* 0.7, 0.72, 0.5, 0.9, 0.65, 0.7000000000000001, 0.55 and (the empty
\* candidate) 0.4: pairs 0.15 or more apart, pairs closer than that, two
\* different candidates of one score, 0.65 and 0.5, whose doubles are
\* 0.15000000000000002 apart, 0.7 and 0.55, whose doubles are
\* 0.1499999999999999 apart, and two scores that differ in the last place.
FullHeader(number) ==
    InvoiceGeneral(Some(number), Some("2024-01-01"), Some("ACME"), Some(2360),
                   Some("TRY"))

CandFull == InvoiceExtraction(FullHeader("INV-1"), <<FullItem>>)

CandHeaderOnly == InvoiceExtraction(FullHeader("INV-1"), <<>>)

CandHeaderOnlyB == InvoiceExtraction(FullHeader("INV-2"), <<>>)

CandTwoHeaders ==
    InvoiceExtraction(InvoiceGeneral(Some("INV-1"), Some("2024-01-01"), None, None, None),
                      <<BlankItem>>)

CandWrongItem ==
    InvoiceExtraction(InvoiceGeneral(None, None, None, None, None), <<WrongItem>>)

CandBlankItem == InvoiceExtraction(FullHeader("INV-1"), <<BlankItem>>)

CandTwoItems ==
    InvoiceExtraction(InvoiceGeneral(None, None, None, None, None),
                      <<FullItem, BlankItem>>)

\* InvoiceExtraction(general_fields=InvoiceGeneral(), items=[])
EmptyExtraction == InvoiceExtraction(InvoiceGeneral(None, None, None, None, None), <<>>)

\* One valid item under an empty header: 0.0 + 0.2 + 0.1 + 0.4 in doubles.
CandItemOnly ==
    InvoiceExtraction(InvoiceGeneral(None, None, None, None, None), <<FullItem>>)

CandWrongBlank ==
    InvoiceExtraction(InvoiceGeneral(None, None, None, None, None),
                      <<WrongItem, BlankItem>>)

CandidatePool ==
    {CandFull, CandHeaderOnly, CandHeaderOnlyB, CandTwoHeaders, CandWrongItem,
     CandBlankItem, CandTwoItems, CandItemOnly, CandWrongBlank}

\* A candidate no backend of the model returns: what a judge can write itself.
CandSynthesized == InvoiceExtraction(FullHeader("INV-3"), <<FullItem>>)

OpenAISource == "openai:gpt-4o-mini"

OllamaSource == "ollama:llama3.2"

\* create_parallel_extractors(), by source_name: the OpenAI agent, and the
\* Ollama agent when parallel_llm_enabled and its construction did not raise.
create_parallel_extractors(parallel_llm_enabled, ollama_constructed) ==
    IF parallel_llm_enabled /\ ollama_constructed
    THEN <<OpenAISource, OllamaSource>>
    ELSE <<OpenAISource>>

NoExtractOutcome == [kind |-> "none", extraction |-> EmptyExtraction]

\* ExtractionAgent.extract(ocr_text): the empty candidate for blank text,
\* with no backend call; else the backend's candidate or its failure.
ExtractOutcomes(blank) ==
    IF blank
    THEN {[kind |-> "ok", extraction |-> EmptyExtraction]}
    ELSE {[kind |-> "raise", extraction |-> EmptyExtraction]}
         \cup {[kind |-> "ok", extraction |-> c] : c \in CandidatePool}

AgentDecision(selected_source, confidence, reasoning, result) ==
    [selected_source |-> selected_source, confidence |-> confidence,
     reasoning |-> reasoning, result |-> result]

NoDecision == AgentDecision("", FloatZero, "", EmptyExtraction)

DecisionReturned(d) == [kind |-> "return", decision |-> d, error |-> ""]

DecisionRaised(e) == [kind |-> "raise", decision |-> NoDecision, error |-> e]

NoDecisionYet == [kind |-> "none", decision |-> NoDecision, error |-> ""]

Scored(results) ==
    [i \in 1..Len(results) |->
        [source |-> results[i].source, extraction |-> results[i].extraction,
         score |-> calculate_score(results[i].extraction)]]

RECURSIVE SortByScoreDesc(_)
\* list.sort(key=lambda x: x[2], reverse=True): stable, so elements of equal
\* score keep the order they had.
SortByScoreDesc(scored) ==
    IF scored = <<>> THEN <<>>
    ELSE LET init == SortByScoreDesc(SubSeq(scored, 1, Len(scored) - 1))
             x    == scored[Len(scored)]
             k    == Cardinality({i \in 1..Len(init) :
                                     FloatLeq(x.score, init[i].score)})
         IN  SubSeq(init, 1, k) \o <<x>> \o SubSeq(init, k + 1, Len(init))

DecimalDigits == <<"0", "1", "2", "3", "4", "5", "6", "7", "8", "9">>

RECURSIVE DecimalString(_)
\* str(n) of an int n >= 0.
DecimalString(n) ==
    IF n < 10 THEN DecimalDigits[n + 1]
    ELSE DecimalString(n \div 10) \o DecimalDigits[(n % 10) + 1]

\* The decimal of h hundredths with two digits after the point, h >= 0.
FixedOfHundredths(h) ==
    DecimalString(h \div 100) \o "." \o DecimalDigits[(h % 100) \div 10 + 1]
                              \o DecimalDigits[(h % 10) + 1]

\* f"{x:.2f}" of a float x >= 0: the decimal of two digits nearest to the
\* exact value of x, a tie going to the even one.
FormatFixed2(x) == FixedOfHundredths(FloatRound(x, 2))

\* reasoning = f"Selected based on quality score: {best_score:.2f}", and
\* f" (vs {second_source}: {second_score:.2f})" after it if there is a
\* second result.
HeuristicReasoning(scored_results) ==
    "Selected based on quality score: " \o FormatFixed2(scored_results[1].score)
    \o (IF Len(scored_results) > 1
        THEN " (vs " \o scored_results[2].source \o ": "
             \o FormatFixed2(scored_results[2].score) \o ")"
        ELSE "")

\* The AgentDecision for the first of scored_results.
SelectedFirst(scored_results) ==
    AgentDecision(scored_results[1].source, scored_results[1].score,
                  HeuristicReasoning(scored_results),
                  scored_results[1].extraction)

\* A faulty variant of select_best_heuristic: the list is not sorted.
select_first_unsorted(results) == SelectedFirst(Scored(results))

\* DecisionAgent._select_best_heuristic
select_best_heuristic(results) == SelectedFirst(SortByScoreDesc(Scored(results)))

\* The AgentDecision the comparison agent returns is whatever the model
\* wrote into the schema: a source name, a confidence and an extraction.
JudgeOutcomes(call) ==
    {[kind |-> "raise", decision |-> NoDecision]}
    \cup {[kind |-> "ok", decision |-> AgentDecision(s, c, "judge", r)] :
             s \in {call.source_a, call.source_b, "hybrid"},
             c \in {FloatZero, FloatOne},
             r \in {call.result_a, call.result_b, CandSynthesized}}

\* source_a, result_a = results[0]; source_b, result_b = results[1]: what
\* the prompt of the judge call is formatted from.
JudgePrompt(results) ==
    [source_a |-> results[1].source, result_a |-> results[1].extraction,
     source_b |-> results[2].source, result_b |-> results[2].extraction]

\* A faulty variant of ScoresClose: a gap of up to 0.16 counts as close.
ScoresCloseWide(best_score, second_score) ==
    FloatLeq(FloatAbs(FloatSub(best_score, second_score)), Hundredths(16))

\* abs(best_score - second_score) < 0.15
ScoresClose(best_score, second_score) ==
    FloatLess(FloatAbs(FloatSub(best_score, second_score)), Hundredths(15))

DecideIdle ==
    [pc |-> "idle", blank |-> FALSE, extractors |-> <<>>, invoked |-> <<>>,
     pending |-> {}, outcomes |-> <<>>, results |-> <<>>, judge_calls |-> <<>>,
     judge_outcome |-> [kind |-> "none", decision |-> NoDecision],
     ret |-> NoDecisionYet]

\* decide(ocr_text) is entered: the extractors are created; a single one is
\* called directly, several are all submitted to the pool.
DecideCall ==
    /\ decide.pc = "idle"
    /\ \E blank \in BOOLEAN, enabled \in BOOLEAN, constructed \in BOOLEAN :
          LET extractors == create_parallel_extractors(enabled, constructed)
          IN  decide' = [decide EXCEPT
                            !.pc = IF Len(extractors) = 1 THEN "single" ELSE "parallel",
                            !.blank = blank,
                            !.extractors = extractors,
                            !.invoked = extractors,
                            !.pending = 1..Len(extractors),
                            !.outcomes = [i \in 1..Len(extractors) |-> NoExtractOutcome]]

\* A single extractor mode that reports full confidence.
DecideSingleAfterCertain(o) ==
    IF o.kind = "ok"
    THEN DecisionReturned(AgentDecision(decide.extractors[1], FloatOne,
                                        "Single extractor mode", o.extraction))
    ELSE DecisionRaised("backend error")

\* Single extractor mode: the extraction is returned with its score, a
\* failure of the extractor leaves decide as it is.
DecideSingleAfter(o) ==
    IF o.kind = "ok"
    THEN DecisionReturned(AgentDecision(decide.extractors[1],
                                        calculate_score(o.extraction),
                                        "Single extractor mode", o.extraction))
    ELSE DecisionRaised("backend error")

DecideSingle ==
    /\ decide.pc = "single"
    /\ \E o \in ExtractOutcomes(decide.blank) :
          decide' = [decide EXCEPT !.pc = "done", !.pending = {},
                                   !.outcomes[1] = o,
                                   !.results = IF o.kind = "ok"
                                               THEN <<[source |-> decide.extractors[1],
                                                       extraction |-> o.extraction]>>
                                               ELSE <<>>,
                                   !.ret = DecideSingleAfter(o)]

\* decide after _run_parallel_extractions returned `results`: the frame's pc,
\* judge_calls and ret.  The judge is called by _select_best_llm.
Arbitrate(f, results) ==
    IF results = <<>>
    THEN [f EXCEPT !.pc = "done",
                   !.ret = DecisionRaised("All extraction attempts failed")]
    ELSE IF Len(results) = 1
    THEN [f EXCEPT !.pc = "done",
                   !.ret = DecisionReturned(
                               AgentDecision(results[1].source,
                                             calculate_score(results[1].extraction),
                                             "Only one extraction succeeded",
                                             results[1].extraction))]
    ELSE LET scores == SortByScoreDesc(Scored(results))
         IN  IF ScoresClose(scores[1].score, scores[2].score)
             THEN [f EXCEPT !.pc = "judge",
                            !.judge_calls = Append(@, JudgePrompt(results))]
             ELSE [f EXCEPT !.pc = "done",
                            !.ret = DecisionReturned(select_best_heuristic(results))]

\* A faulty variant of CollectResult: a failure discards what was collected.
CollectResultOrClear(results, source, o) ==
    IF o.kind = "ok"
    THEN Append(results, [source |-> source, extraction |-> o.extraction])
    ELSE <<>>

\* try: results.append((source, future.result())); except Exception: log.
CollectResult(results, source, o) ==
    IF o.kind = "ok"
    THEN Append(results, [source |-> source, extraction |-> o.extraction])
    ELSE results

\* as_completed yields one more future: its result is appended, its failure
\* logged.  After the last one decide goes on to the arbitration.
DecideComplete ==
    /\ decide.pc = "parallel"
    /\ \E i \in decide.pending, o \in ExtractOutcomes(decide.blank) :
          LET results == CollectResult(decide.results, decide.extractors[i], o)
              f       == [decide EXCEPT !.pending = @ \ {i}, !.outcomes[i] = o,
                                        !.results = results]
          IN  decide' = IF f.pending = {} THEN Arbitrate(f, results) ELSE f

\* The rest of _select_best_llm: the judge's output, or the heuristic
\* selection when the judge call raised.
DecideJudge ==
    /\ decide.pc = "judge"
    /\ \E o \in JudgeOutcomes(decide.judge_calls[Len(decide.judge_calls)]) :
          decide' = [decide EXCEPT
                        !.pc = "done",
                        !.judge_outcome = o,
                        !.ret = IF o.kind = "ok"
                                THEN DecisionReturned(o.decision)
                                ELSE DecisionReturned(
                                         select_best_heuristic(decide.results))]

\* The longest list _select_best_llm is called with on its own.
MaxResults == 3

\* A source name besides the two that create_parallel_extractors gives.
ThirdSource == "mistral:mistral-small"

\* The (source, extraction) lists of a call of _select_best_llm on its own:
\* one to MaxResults tuples, the two configured sources first, the extractions
\* scoring 1.0, 0.72, 0.7 and 0.5.
SelectResultLists ==
    LET sources == <<OpenAISource, OllamaSource>>
        pool    == {CandFull, CandTwoHeaders, CandHeaderOnly, CandWrongItem}
    IN  UNION {{[i \in 1..n |->
                    [source |-> IF i <= 2 THEN sources[i] ELSE ThirdSource,
                     extraction |-> e[i]]] :
                   e \in [1..n -> pool]} : n \in 1..MaxResults}

\* _select_best_llm(results, ocr_text) up to the judge call: a single result
\* is returned with confidence 0.8, else the prompt is formatted from
\* results[0] and results[1] and the judge is run.
SelectBestLlm ==
    /\ decide.pc = "idle"
    /\ \E results \in SelectResultLists :
          decide' =
             IF Len(results) < 2
             THEN [decide EXCEPT
                      !.pc = "done",
                      !.results = results,
                      !.ret = DecisionReturned(
                                  AgentDecision(results[1].source, Tenths(8),
                                                "Only one result available",
                                                results[1].extraction))]
             ELSE [decide EXCEPT
                      !.pc = "judge",
                      !.results = results,
                      !.judge_calls = Append(@, JudgePrompt(results))]

(***************************************************************************)
(* OCRService (app/services/ocr/service.py).                               *)
(***************************************************************************)
\* The most pages a PDF of the model has.
MaxPages == 2

\* The double of each confidence a provider reports, k / 10.
ConfidenceDoubles == Tabulated([k \in ConfValues |-> Tenths(k)])

\* The OCRResult the chain returned, as the service computes with it: its
\* confidence is a double.
InDoubles(result) == [result EXCEPT !.confidence = ConfidenceDoubles[@]]

\* settings.min_confidence_threshold
ConfidenceThreshold == Tenths(SettingsMinConfidence)

\* @with_retry(max_attempts=3, delay=1.0, backoff=2.0) on OCRService.extract.
ExtractMaxAttempts == 3

ExtractDelay == 1

ExtractBackoff == 2

RECURSIVE ChainRun(_, _, _, _)
\* OCRProviderChain.extract from provider idx on, as a function of what each
\* provider does when called (outcomes[k] for Providers[k]).
ChainRun(min_confidence, outcomes, idx, results) ==
    LET o       == outcomes[idx]
        results2 == IF o.kind = "ok" THEN Append(results, o.result) ELSE results
    IN  IF o.kind = "ok" /\ MeetsThreshold(o.result, min_confidence)
        THEN [kind |-> "return", result |-> o.result, error |-> ""]
        ELSE IF idx = Len(Providers) THEN ChainExhausted(results2)
        ELSE ChainRun(min_confidence, outcomes, idx + 1, results2)

\* What self.chain.extract(path, lang) can do.
ChainOutcomes(min_confidence, lang) ==
    {ChainRun(min_confidence, <<o1, o2>>, 1, <<>>) :
        o1 \in ProviderOutcomes(Providers[1], lang),
        o2 \in ProviderOutcomes(Providers[2], lang)}

\* The chain of OCRService, built with settings.min_confidence_threshold, on
\* lang=settings.ocr_lang ("en") and on lang="tr".
ServiceChainEn == ChainOutcomes(SettingsMinConfidence, "en")

ServiceChainTr == ChainOutcomes(SettingsMinConfidence, "tr")

\* What the chain reads on a page image in the model: nothing, with
\* confidence 0.0, or a text with confidence 0.2, 0.5, 0.7, 0.9 or 1.0.  The
\* pages 0.2 and 0.7 have the mean 0.44999999999999996 and the pages 0.0 and
\* 0.9 the mean 0.45.
PageReadings ==
    {<<"", 0>>, <<"text", 2>>, <<"text", 5>>, <<"text", 7>>, <<"text", 9>>,
     <<"text", ConfOne>>}

\* One chain call of the service, on a page image of a PDF or on the file.
ChainCall(lang, on_page) ==
    {o \in (IF lang = "en" THEN ServiceChainEn ELSE ServiceChainTr) :
        on_page => (o.kind = "raise"
                    \/ <<o.result.text, o.result.confidence>> \in PageReadings)}

\* No OCRResult, where the service has none.
NoServiceResult == OCRResult("", FloatZero, "unknown", "unknown")

NoServiceReturn == [kind |-> "none", result |-> NoServiceResult, error |-> ""]

ServiceReturn(result) == [kind |-> "return", result |-> result, error |-> ""]

ServiceRaise(error) == [kind |-> "raise", result |-> NoServiceResult, error |-> error]

\* The stored upload of a job, by its kind.
ImagePath == "data/invoice.png"

PdfPath == "data/invoice.pdf"

PathOf(file) == IF file.is_pdf THEN PdfPath ELSE ImagePath

\* f"File not found: {image_path}"
FileNotFoundText(path) == "File not found: " \o path

\* The message of the FileNotFoundError of OCRService.extract on an image.
FileNotFoundMessage == FileNotFoundText(ImagePath)

PageBreak == "\n\n--- Page Break ---\n\n"

RECURSIVE Join(_, _)
\* sep.join(texts)
Join(texts, sep) ==
    IF texts = <<>> THEN ""
    ELSE IF Len(texts) = 1 THEN texts[1]
    ELSE texts[1] \o sep \o Join(Tail(texts), sep)

\* The input file: whether it exists, whether its suffix is .pdf, how many
\* pages it rasterizes to, and whether os.unlink of a temporary file fails.
InputFile(exists, is_pdf, pages, unlink_fails) ==
    [exists |-> exists, is_pdf |-> is_pdf, pages |-> pages,
     unlink_fails |-> unlink_fails]

InputFiles ==
    {InputFile(FALSE, FALSE, 0, FALSE), InputFile(TRUE, FALSE, 0, FALSE)}
    \cup {InputFile(TRUE, TRUE, n, u) : n \in 0..MaxPages, u \in BOOLEAN}

\* What _convert_pdf_to_images(pdf_path) can do on a PDF of n pages: write
\* the n page files and return their paths, or raise (convert_from_path, or
\* the image.save of a page) after `written` files are on disk.
ConvertOutcomes(n) ==
    {[kind |-> "ok", written |-> n]}
    \cup {[kind |-> "raise", written |-> k] : k \in 0..(IF n = 0 THEN 0 ELSE n - 1)}

\* The frame of one extract_with_fallback, _extract_from_pdf or
\* extract_with_specific_provider call: the locals of the running method,
\* `result` of extract_with_fallback, provider_name and lang of
\* extract_with_specific_provider, attempt, current_delay and last_exception
\* of the with_retry wrapper around extract and the sleeps it finished, the
\* temporary files on disk and those ever created, the chain calls made
\* (language and path, <<0, 0>> being the input file) and the last chain
\* outcome.
ServiceIdle(file) ==
    [pc |-> "idle", op |-> "none", file |-> file, provider_name |-> "",
     lang |-> "en", attempt |-> 0,
     current_delay |-> 0, last_exception |-> NoServiceReturn, sleeps |-> <<>>,
     runs |-> 0, image_paths |-> <<>>,
     all_texts |-> <<>>, total_confidence |-> FloatZero,
     provider_used |-> "unknown",
     result |-> NoServiceResult, files |-> {}, created |-> {},
     chain_calls |-> <<>>, last |-> NoReturn, ret |-> NoServiceReturn]

\* The finally clause: os.unlink of every path of image_paths, an OSError
\* swallowed.
Unlinked(s) ==
    IF s.file.unlink_fails THEN s
    ELSE [s EXCEPT !.files = @ \ {s.image_paths[i] : i \in 1..Len(s.image_paths)}]

\* A faulty variant of ReplacesFirst: a tie replaces too.
ReplacesFirstOnTie(confidence, first) == FloatLeq(first.confidence, confidence)

\* if tr_result.confidence > result.confidence / if avg_conf > result.confidence
ReplacesFirst(confidence, first) == FloatLess(first.confidence, confidence)

\* The totals of up to two page confidences, by the total so far and the
\* confidence added, and their quotients by the numbers of pages.
PageTotals ==
    Tabulated([p \in ({FloatZero} \cup {ConfidenceDoubles[k] : k \in ConfValues})
                         \X ConfValues |->
                  FloatAdd(p[1], ConfidenceDoubles[p[2]])])

PageMeans ==
    Tabulated([p \in {PageTotals[q] : q \in DOMAIN PageTotals} \X (1..MaxPages) |->
                  FloatDivInt(p[1], p[2])])

\* total_confidence += result.confidence, the confidence k / 10.
TotalConfidence(total, k) ==
    Looked(PageTotals, <<total, k>>, FloatAdd(total, ConfidenceDoubles[k]))

\* A faulty variant of MeanConfidence: the total, undivided.
MeanConfidenceTotal(total, n) == total

\* total_confidence / len(image_paths)
MeanConfidence(total, n) == Looked(PageMeans, <<total, n>>, FloatDivInt(total, n))

\* The locals of a method that ended are gone.
LocalsDropped(s) ==
    [s EXCEPT !.image_paths = <<>>, !.all_texts = <<>>,
              !.total_confidence = FloatZero,
              !.provider_used = "unknown", !.last = NoReturn]

\* The body of extract ended, by returning or raising.  Under
\* _extract_from_pdf alone that is the end of the call.  Under
\* extract_with_fallback the with_retry wrapper keeps the failure in
\* last_exception and starts to sleep unless that was the last attempt, and
\* a returned result either is returned (confidence >= threshold) or
\* becomes `result` of the secondary attempt.
ExtractEnds(s, outcome) ==
    IF s.op = "_extract_from_pdf"
    THEN [s EXCEPT !.pc = "done", !.ret = outcome]
    ELSE IF outcome.kind = "raise"
    THEN IF SleepsAfter(s.attempt, ExtractMaxAttempts)
         THEN [LocalsDropped(s) EXCEPT !.pc = "extract_sleep",
                                       !.last_exception = outcome]
         ELSE [LocalsDropped(s) EXCEPT !.pc = "done",
                                       !.last_exception = outcome,
                                       !.ret = outcome]
    ELSE IF FloatLeq(ConfidenceThreshold, outcome.result.confidence)
    THEN [LocalsDropped(s) EXCEPT !.pc = "done", !.result = outcome.result,
                                  !.ret = outcome]
    ELSE [LocalsDropped(s) EXCEPT
             !.pc = IF s.file.is_pdf THEN "tr_convert" ELSE "tr_image",
             !.result = outcome.result]

\* _convert_pdf_to_images as called by a method, and what the method does
\* with its outcome before the page loop.
Rasterized(s, conv) ==
    LET run   == s.runs + 1
        paths == [p \in 1..conv.written |-> <<run, p>>]
        onpaths == {paths[p] : p \in 1..conv.written}
    IN  [s EXCEPT !.runs = run, !.files = @ \cup onpaths,
                  !.created = @ \cup onpaths,
                  !.image_paths = IF conv.kind = "ok" THEN paths ELSE <<>>,
                  !.all_texts = <<>>, !.total_confidence = FloatZero]

\* _extract_from_pdf up to its page loop.
PdfConverted(s, conv) ==
    LET r == [Rasterized(s, conv) EXCEPT !.provider_used = "unknown"]
    IN  IF conv.kind = "raise" THEN ExtractEnds(r, ServiceRaise("conversion failed"))
        ELSE IF r.image_paths = <<>>
        THEN ExtractEnds(r, ServiceReturn(OCRResult("", FloatZero, "unknown",
                                                    "pdf")))
        ELSE [r EXCEPT !.pc = "pdf_pages"]

\* One iteration of the page loop of _extract_from_pdf, and after the last
\* page or a failure the finally clause and the end of the method.
PdfPageDone(s, o) ==
    LET page   == Len(s.all_texts) + 1
        called == [s EXCEPT !.chain_calls = Append(@, [lang |-> "en",
                                                       path |-> s.image_paths[page]]),
                            !.last = o]
    IN  IF o.kind = "raise" THEN ExtractEnds(Unlinked(called), o)
        ELSE LET r   == o.result
                 acc == [called EXCEPT
                            !.all_texts = Append(@, r.text),
                            !.total_confidence = TotalConfidence(@, r.confidence),
                            !.provider_used = r.provider]
             IN  IF page < Len(s.image_paths) THEN acc
                 ELSE ExtractEnds(Unlinked(acc),
                          ServiceReturn(OCRResult(
                              Join(acc.all_texts, PageBreak),
                              MeanConfidence(acc.total_confidence,
                                             Len(acc.image_paths)),
                              "en", acc.provider_used \o "+pdf")))

\* OCRService.extract_with_fallback(file_path) is entered and calls
\* self.extract, the with_retry wrapper starting its first attempt.
ServiceCall ==
    /\ service.pc = "idle"
    /\ service' = [service EXCEPT !.pc = "extract",
                                  !.op = "extract_with_fallback",
                                  !.attempt = 1, !.current_delay = ExtractDelay]

\* OCRService._extract_from_pdf(pdf_path) is called on a PDF.
PdfCall ==
    /\ service.pc = "idle"
    /\ service.file.exists /\ service.file.is_pdf
    /\ \E conv \in ConvertOutcomes(service.file.pages) :
          service' = PdfConverted([service EXCEPT !.op = "_extract_from_pdf"], conv)

\* One attempt of OCRService.extract: a missing file raises, a PDF is
\* rasterized, an image goes through the chain.
ExtractAttempt ==
    /\ service.pc = "extract"
    /\ IF ~service.file.exists
       THEN service' = ExtractEnds(service,
                           ServiceRaise(FileNotFoundText(PathOf(service.file))))
       ELSE IF service.file.is_pdf
       THEN \E conv \in ConvertOutcomes(service.file.pages) :
               service' = PdfConverted(service, conv)
       ELSE \E o \in ChainCall("en", FALSE) :
               service' = ExtractEnds(
                   [service EXCEPT !.chain_calls = Append(@, [lang |-> "en",
                                                              path |-> <<0, 0>>]),
                                   !.last = o],
                   IF o.kind = "raise" THEN o
                   ELSE ServiceReturn(InDoubles(o.result)))

\* time.sleep(current_delay) of the with_retry wrapper around extract
\* returns: current_delay *= backoff, and the next attempt starts.
ExtractSlept ==
    /\ service.pc = "extract_sleep"
    /\ service' = [service EXCEPT !.pc = "extract", !.attempt = @ + 1,
                                  !.sleeps = Append(@, service.current_delay),
                                  !.current_delay = @ * ExtractBackoff]

\* delete_invoice(job_id) of app/main.py on the job of the input file: the
\* stored upload is unlinked.  The suffixes it looks for are those of the
\* images and .bin; an upload stored as .pdf is not among them.
DeleteInvoice ==
    /\ service.file.exists
    /\ ~service.file.is_pdf
    /\ service' = [service EXCEPT !.file.exists = FALSE]

PdfPage ==
    /\ service.pc = "pdf_pages"
    /\ \E o \in ChainCall("en", TRUE) : service' = PdfPageDone(service, o)

\* The secondary-language attempt on an image: lines 116-119, and the
\* `except Exception: pass` around them.
FallbackImage ==
    /\ service.pc = "tr_image"
    /\ \E o \in ChainCall("tr", FALSE) :
          LET called == [service EXCEPT
                            !.chain_calls = Append(@, [lang |-> "tr",
                                                       path |-> <<0, 0>>]),
                            !.last = o, !.pc = "done"]
          IN  service' =
                 IF o.kind = "return"
                    /\ ReplacesFirst(InDoubles(o.result).confidence, service.result)
                 THEN [called EXCEPT !.ret = ServiceReturn(
                          [InDoubles(o.result) EXCEPT !.retry_count = 1])]
                 ELSE [called EXCEPT !.ret = ServiceReturn(service.result)]

\* The secondary-language attempt on a PDF, up to its page loop.
FallbackConvert ==
    /\ service.pc = "tr_convert"
    /\ \E conv \in ConvertOutcomes(service.file.pages) :
          LET r == Rasterized(service, conv)
          IN  service' =
                 IF conv.kind = "raise" \/ r.image_paths = <<>>
                 THEN [r EXCEPT !.pc = "done", !.ret = ServiceReturn(service.result)]
                 ELSE [r EXCEPT !.pc = "tr_pages"]

\* One iteration of the page loop of the secondary attempt, and after the
\* last page or a failure the finally clause and the end of the method.
FallbackPageDone(s, o) ==
    LET page   == Len(s.all_texts) + 1
        called == [s EXCEPT !.chain_calls = Append(@, [lang |-> "tr",
                                                       path |-> s.image_paths[page]]),
                            !.last = o]
        first  == [kind |-> "return", result |-> s.result, error |-> ""]
    IN  IF o.kind = "raise"
        THEN [Unlinked(called) EXCEPT !.pc = "done", !.ret = first]
        ELSE LET r   == o.result
                 acc == [called EXCEPT
                            !.all_texts = Append(@, r.text),
                            !.total_confidence = TotalConfidence(@, r.confidence)]
                 avg == MeanConfidence(acc.total_confidence, Len(acc.image_paths))
             IN  IF page < Len(s.image_paths) THEN acc
                 ELSE IF ReplacesFirst(avg, s.result)
                 THEN [Unlinked(acc) EXCEPT
                          !.pc = "done",
                          !.ret = ServiceReturn(
                              [OCRResult(Join(acc.all_texts, PageBreak), avg, "tr",
                                         s.result.provider)
                                  EXCEPT !.retry_count = 1])]
                 ELSE [Unlinked(acc) EXCEPT !.pc = "done", !.ret = first]

FallbackPage ==
    /\ service.pc = "tr_pages"
    /\ \E o \in ChainCall("tr", TRUE) : service' = FallbackPageDone(service, o)

\* The provider names extract_with_specific_provider is called with: those
\* of the chain, and one no provider of the chain has.
ProviderNames == {Providers[i] : i \in DOMAIN Providers} \cup {"tesseract"}

\* OCRProviderChain.extract_with_provider(image_path, provider_name, lang):
\* a ValueError for a name no provider of the chain has, else what the
\* extract of that provider does.
ProviderCall(provider_name, lang, on_page) ==
    IF \A i \in DOMAIN Providers : Providers[i] # provider_name
    THEN {ServiceRaise("Unknown OCR provider: " \o provider_name)}
    ELSE {IF o.kind = "ok" THEN ServiceReturn(o.result)
          ELSE IF o.kind = "timeout" THEN ServiceRaise("SoftTimeLimitExceeded")
          ELSE ServiceRaise("provider error") :
             o \in {p \in ProviderOutcomes(provider_name, lang) :
                       (on_page /\ p.kind = "ok")
                           => <<p.result.text, p.result.confidence>> \in PageReadings}}

\* extract_with_specific_provider on a PDF, up to its page loop: the
\* rasterization, and for a PDF of no page the result of no reading.
SpecificConverted(s, conv) ==
    LET r == Rasterized(s, conv)
    IN  IF conv.kind = "raise"
        THEN [r EXCEPT !.pc = "done", !.ret = ServiceRaise("conversion failed")]
        ELSE IF r.image_paths = <<>>
        THEN [r EXCEPT !.pc = "done",
                       !.ret = ServiceReturn(OCRResult("", FloatZero, s.lang,
                                                       s.provider_name \o "+pdf"))]
        ELSE [r EXCEPT !.pc = "specific_pages"]

\* One iteration of the page loop of extract_with_specific_provider, and
\* after the last page or a failure the finally clause and the end of the
\* method.
SpecificPageDone(s, o) ==
    LET page   == Len(s.all_texts) + 1
        called == [s EXCEPT !.chain_calls = Append(@, [lang |-> s.lang,
                                                       path |-> s.image_paths[page]]),
                            !.last = o]
    IN  IF o.kind = "raise" THEN [Unlinked(called) EXCEPT !.pc = "done", !.ret = o]
        ELSE LET r   == o.result
                 acc == [called EXCEPT
                            !.all_texts = Append(@, r.text),
                            !.total_confidence = TotalConfidence(@, r.confidence)]
             IN  IF page < Len(s.image_paths) THEN acc
                 ELSE [Unlinked(acc) EXCEPT
                          !.pc = "done",
                          !.ret = ServiceReturn(OCRResult(
                              Join(acc.all_texts, PageBreak),
                              MeanConfidence(acc.total_confidence,
                                             Len(acc.image_paths)),
                              s.lang, s.provider_name \o "+pdf"))]

\* OCRService.extract_with_specific_provider(file_path, provider_name, lang):
\* a missing file raises, a PDF is rasterized, an image is read by the
\* provider of that name.  There is no retry and no secondary attempt.
SpecificCall ==
    /\ service.pc = "idle"
    /\ \E name \in ProviderNames, lang \in {"en", "tr"} :
          LET s == [service EXCEPT !.op = "extract_with_specific_provider",
                                   !.provider_name = name, !.lang = lang]
          IN  IF ~s.file.exists
              THEN service' = [s EXCEPT !.pc = "done",
                                        !.ret = ServiceRaise(
                                            FileNotFoundText(PathOf(s.file)))]
              ELSE IF s.file.is_pdf
              THEN \E conv \in ConvertOutcomes(s.file.pages) :
                      service' = SpecificConverted(s, conv)
              ELSE \E o \in ProviderCall(name, lang, FALSE) :
                      service' = [s EXCEPT
                                     !.pc = "done",
                                     !.chain_calls = Append(@, [lang |-> lang,
                                                                path |-> <<0, 0>>]),
                                     !.last = o,
                                     !.ret = IF o.kind = "raise" THEN o
                                             ELSE ServiceReturn(InDoubles(o.result))]

SpecificPage ==
    /\ service.pc = "specific_pages"
    /\ \E o \in ProviderCall(service.provider_name, service.lang, TRUE) :
          service' = SpecificPageDone(service, o)

(***************************************************************************)
(* OCRAgent (app/services/agents/ocr_agent.py).                            *)
(***************************************************************************)
\* A text, by how many of its characters are digits, other alphanumeric
\* characters, whitespace and anything else: all that assess_quality looks at.
OCRText(digits, letters, spaces, specials) ==
    [digits |-> digits, letters |-> letters, spaces |-> spaces,
     specials |-> specials]

\* The texts of the model: lengths 0 to 85 (50 among them), with and without
\* digits, with a share of special characters of 0, below 0.3, 0.3 and above,
\* and texts of whitespace alone.
OCRTexts ==
    {OCRText(d, l, s, x) : d \in {0, 5}, l \in {0, 30}, s \in {0, 10},
                           x \in {0, 15, 30}}

\* len(text)
TextLen(text) == text.digits + text.letters + text.spaces + text.specials

\* not ocr_result.text.strip()
IsBlank(text) == text.digits + text.letters + text.specials = 0

\* The heuristic checks, in the order of the code.  special_ratio > 0.3 is
\* specials / len > 3/10.
QuickIssues(text) ==
    (IF TextLen(text) < 50 THEN <<"text_too_short">> ELSE <<>>)
    \o (IF text.digits = 0 THEN <<"no_numbers">> ELSE <<>>)
    \o (IF 10 * text.specials > 3 * TextLen(text)
        THEN <<"excessive_special_chars">> ELSE <<>>)

\* OCR parameters, in hundredths.  A dict is a function on its keys, the
\* empty dict <<>>.
EmptyDict == <<>>

\* OCR_RETRY_PARAMS (app/prompts/ocr_prompts.py)
OCR_RETRY_PARAMS ==
    [issue \in {"empty_text", "text_too_short", "no_numbers",
                "excessive_special_chars", "low_confidence"} |->
        CASE issue = "empty_text" ->
                 ("det_db_thresh" :> 20) @@ ("det_db_box_thresh" :> 30)
          [] issue = "text_too_short" -> ("det_db_thresh" :> 20)
          [] issue = "no_numbers" -> ("det_db_thresh" :> 25)
          [] issue = "excessive_special_chars" ->
                 ("det_db_thresh" :> 35) @@ ("det_db_unclip_ratio" :> 200)
          [] issue = "low_confidence" -> ("det_db_thresh" :> 30)]

\* A dict update under which the keys already set are kept.
DictUpdateKeepsFirst(params, other) == params @@ other

\* params.update(other): the keys of other overwrite.
DictUpdate(params, other) == other @@ params

RECURSIVE RetryParamsFrom(_, _)
\* The loop of _get_retry_params over the issues left, from params.
RetryParamsFrom(params, issues) ==
    IF issues = <<>> THEN params
    ELSE RetryParamsFrom(
             IF Head(issues) \in DOMAIN OCR_RETRY_PARAMS
             THEN DictUpdate(params, OCR_RETRY_PARAMS[Head(issues)])
             ELSE params,
             Tail(issues))

\* OCRAgent._get_retry_params
get_retry_params(issues) ==
    LET params == RetryParamsFrom(EmptyDict, issues)
    IN  IF params # EmptyDict THEN params ELSE ("det_db_thresh" :> 30)

\* The longest issue list passed to _get_retry_params.
MaxIssues == 2

\* The issue names a caller passes: those of the table, and two the table
\* does not know (the model may write any string).
IssueNames == DOMAIN OCR_RETRY_PARAMS \cup {"assessment_failed", "blurry_scan"}

\* The frame of one _get_retry_params call.
RetryParamsIdle == [pc |-> "idle", issues |-> <<>>, ret |-> EmptyDict]

\* OCRAgent._get_retry_params(issues), the whole call.
GetRetryParams ==
    /\ retry_params.pc = "idle"
    /\ retry_params' = [retry_params EXCEPT
           !.pc = "done", !.ret = get_retry_params(retry_params.issues)]

OCRQualityAssessment(quality, confidence, issues, should_retry, suggested_params) ==
    [quality |-> quality, confidence |-> confidence, issues |-> issues,
     should_retry |-> should_retry, suggested_params |-> suggested_params]

NoAssessment == OCRQualityAssessment("", FloatZero, <<>>, FALSE, None)

\* What self._agent.run_sync(...) can do: raise, or give an assessment the
\* model wrote, of any confidence the schema lets through (ge=0.0, le=1.0).
ModelOutcomes ==
    {[kind |-> "raise", assessment |-> NoAssessment]}
    \cup {[kind |-> "ok",
           assessment |-> OCRQualityAssessment(q, Tenths(8), i, r, p)] :
             q \in {"good", "poor"},
             i \in {<<>>, <<"low_confidence">>, <<"blurry">>,
                    <<"excessive_special_chars", "text_too_short">>},
             r \in BOOLEAN,
             p \in {None, Some(EmptyDict), Some("det_db_thresh" :> 10)}}
    \cup {[kind |-> "ok",
           assessment |-> OCRQualityAssessment(q, c, <<>>, r, None)] :
             q \in {"good", "poor"},
             c \in {FloatZero, Tenths(3), FloatOne},
             r \in BOOLEAN}

\* A faulty variant of SkipsModel: one heuristic issue is enough.
SkipsModelOnAny(quick_issues) == Len(quick_issues) >= 1

\* if len(quick_issues) >= 2
SkipsModel(quick_issues) == Len(quick_issues) >= 2

\* A faulty variant of ConfidenceBasedAssessment: 0.7 counts as good.
ConfidenceBasedAssessmentLax(confidence) ==
    OCRQualityAssessment(IF FloatLeq(Tenths(7), confidence) THEN "good"
                         ELSE "poor",
                         confidence, <<"assessment_failed">>,
                         FloatLess(confidence, Tenths(5)), None)

\* The except branch: the assessment from the OCR confidence alone.
ConfidenceBasedAssessment(confidence) ==
    OCRQualityAssessment(IF FloatLess(Tenths(7), confidence) THEN "good"
                         ELSE "poor",
                         confidence, <<"assessment_failed">>,
                         FloatLess(confidence, Tenths(5)), None)

\* The confidences of the OCR results given to assess_quality: the doubles
\* of the tenths, and the mean of a page of 0.2 and one of 0.7.
AssessedConfidences ==
    {ConfidenceDoubles[c] : c \in ConfValues}
    \cup {MeanConfidence(FloatAdd(Tenths(2), Tenths(7)), 2)}

\* The frame of one assess_quality call: the OCRResult's text and confidence,
\* the calls of the model backend, what the last one did, the return value.
QualityIdle ==
    [pc |-> "idle", text |-> OCRText(0, 0, 0, 0), confidence |-> FloatZero,
     model_calls |-> 0, model_outcome |-> [kind |-> "none",
                                           assessment |-> NoAssessment],
     ret |-> None]

\* assess_quality(ocr_result) up to the model call: the empty-text return,
\* the heuristic checks and their return, or run_sync is called.
AssessQuality ==
    /\ assess.pc = "idle"
    /\ assess' =
          IF IsBlank(assess.text)
          THEN [assess EXCEPT
                   !.pc = "done",
                   !.ret = Some(OCRQualityAssessment(
                               "poor", FloatZero, <<"empty_text">>, TRUE,
                               Some("det_db_thresh" :> 20)))]
          ELSE IF SkipsModel(QuickIssues(assess.text))
          THEN [assess EXCEPT
                   !.pc = "done",
                   !.ret = Some(OCRQualityAssessment(
                               "poor", Tenths(3), QuickIssues(assess.text), TRUE,
                               Some(get_retry_params(QuickIssues(assess.text)))))]
          ELSE [assess EXCEPT !.pc = "model", !.model_calls = @ + 1]

\* The try block after run_sync, and the except branch.
AssessAfterModel(o) ==
    IF o.kind = "raise"
    THEN [assess EXCEPT !.pc = "done", !.model_outcome = o,
                         !.ret = Some(ConfidenceBasedAssessment(assess.confidence))]
    ELSE LET assessment == o.assessment
             no_params  == assessment.suggested_params = None
                           \/ assessment.suggested_params = Some(EmptyDict)
         IN  [assess EXCEPT
                 !.pc = "done", !.model_outcome = o,
                 !.ret = Some(IF assessment.should_retry /\ no_params
                              THEN [assessment EXCEPT !.suggested_params =
                                       Some(get_retry_params(assessment.issues))]
                              ELSE assessment)]

AssessModelReturns ==
    /\ assess.pc = "model"
    /\ \E o \in ModelOutcomes : assess' = AssessAfterModel(o)

(***************************************************************************)
(* Calls of the validation engine and of the scorer on one candidate       *)
(* (app/core/validators.py, DecisionAgent._calculate_score).               *)
(***************************************************************************)
RECURSIVE SeqsUpTo(_, _)
\* The lists of at most n elements of S.
SeqsUpTo(S, n) ==
    IF n = 0 THEN {<<>>}
    ELSE LET shorter == SeqsUpTo(S, n - 1)
         IN  shorter \cup {Append(q, x) : q \in {r \in shorter : Len(r) = n - 1},
                                          x \in S}

GeneralFieldsPool ==
    {InvoiceGeneral(n, d, s, t, c) :
        n \in {None, Some("INV-1")}, d \in {None, Some("2024-01-01")},
        s \in {None, Some("ACME")}, t \in TotalAmounts,
        c \in {None, Some("TRY")}}

\* The InvoiceExtraction objects the engine is called on.
Extractions ==
    {InvoiceExtraction(g, items) :
        g \in GeneralFieldsPool, items \in SeqsUpTo(ItemPool, MaxItems)}

\* One call of a function of the engine on `candidate`: which function, its
\* other arguments, its return value.
ScoringIdle ==
    [pc |-> "idle", candidate |-> EmptyExtraction, call |-> "none",
     index |-> 0, tax_rate |-> DefaultTaxRate, ret |-> None]

\* validate_item_calculation(candidate.items[i], i)
CallValidateItemCalculation ==
    /\ scoring.pc = "idle"
    /\ \E i \in 1..Len(scoring.candidate.items) :
          scoring' = [scoring EXCEPT
              !.pc = "done", !.call = "validate_item_calculation",
              !.index = i - 1,
              !.ret = Some(validate_item_calculation(scoring.candidate.items[i],
                                                     i - 1))]

\* validate_tax(candidate, tax_rate)
CallValidateTax ==
    /\ scoring.pc = "idle"
    /\ \E rate \in TaxRates :
          scoring' = [scoring EXCEPT
              !.pc = "done", !.call = "validate_tax", !.tax_rate = rate,
              !.ret = Some(validate_tax(scoring.candidate, rate))]

\* validate_invoice(candidate)
CallValidateInvoice ==
    /\ scoring.pc = "idle"
    /\ scoring' = [scoring EXCEPT
           !.pc = "done", !.call = "validate_invoice",
           !.ret = Some(validate_invoice(scoring.candidate))]

\* DecisionAgent._calculate_score(candidate)
CallCalculateScore ==
    /\ scoring.pc = "idle"
    /\ scoring' = [scoring EXCEPT
           !.pc = "done", !.call = "_calculate_score",
           !.ret = Some(calculate_score(scoring.candidate))]

(***************************************************************************)
(* StepMetrics and PipelineContext (app/core/metrics.py).  A confidence    *)
(* and a duration on a step record are doubles; the clock is read in       *)
(* whole microseconds, and no reading is earlier than the last.            *)
(***************************************************************************)
\* The most steps one context tracks.
MaxSteps == 2

\* Python truthiness of an Optional[str]: None and "" are both falsy.
TruthyStr(s) == s # None /\ s[1] # ""

\* Python truthiness of an Optional[float] that is a double: None and 0.0
\* are both falsy.
TruthyFloat(f) == f # None /\ f[1].m # <<>>

\* round(x, 3) of a float, in thousandths.
Round3(x) == FloatRound(x, 3)

\* timedelta.total_seconds() of us microseconds: us / 10**6, the double
\* nearest to the quotient.  10**6 is 15625 * 2^6, and dividing a double by
\* 2^6 only lowers its exponent.
TotalSeconds(us) ==
    LET q == FloatDiv(us, 15625)
    IN  IF q.m = <<>> THEN q ELSE [q EXCEPT !.e = @ - 6]

\* (datetime.now() - self.started_at).total_seconds() * 1000, the two
\* readings us microseconds apart.
SecondsTimes1000(us) == FloatMul(TotalSeconds(us), FloatInt(1000))

\* The microseconds between one reading of the clock and the next, chosen
\* anew at every reading: none (both readings fall in the same
\* microsecond), one (a duration of 0.001 ms, which rounds to 0.0), or
\* 1001000, a duration that total_seconds() * 1000 does not give back whole.
Ticks == {0, 1, 1001000}

\* The durations of up to 2 * MaxSteps readings, and those of up to 16
\* milliseconds.
Durations ==
    Tabulated([us \in {a + 1001000 * b : a \in 0..(2 * MaxSteps),
                                         b \in 0..(2 * MaxSteps)}
                      \cup {1000 * k : k \in 1..16} |->
                  SecondsTimes1000(us)])

DurationMs(us) == Looked(Durations, us, SecondsTimes1000(us))

\* The durations of the table, and the steps of sum() on two of them.
DurationValues == {Durations[ms] : ms \in DOMAIN Durations}

DurationSums ==
    Tabulated([p \in DurationValues \X DurationValues |->
                  SumStep(p[1], FloatZero, p[2], FloatAdd(p[1], p[2]))])

RoundedDurations == Tabulated([d \in DurationValues |-> FloatRound(d, 2)])

\* round(x, 2) of a float, in hundredths.
Round2Float(x) == Looked(RoundedDurations, x, FloatRound(x, 2))

StepMetrics(name, started_at) ==
    [name |-> name, started_at |-> started_at, duration_ms |-> None,
     status |-> "running", confidence |-> None, provider |-> None,
     error |-> None]

\* StepMetrics.complete(confidence), the clock reading now.
complete(step, confidence, now) ==
    [step EXCEPT !.duration_ms = Some(DurationMs(now - step.started_at)),
                 !.status = "completed",
                 !.confidence = confidence]

\* StepMetrics.fail(error), the clock reading now.
fail(step, error, now) ==
    [step EXCEPT !.duration_ms = Some(DurationMs(now - step.started_at)),
                 !.status = "failed",
                 !.error = Some(error)]

\* StepMetrics.to_dict: the falsy optional fields are left out.
to_dict(step) ==
    ("name" :> step.name) @@ ("status" :> step.status)
    @@ (IF TruthyFloat(step.duration_ms)
        THEN "duration_ms" :> Round2Float(step.duration_ms[1]) ELSE EmptyDict)
    @@ (IF TruthyFloat(step.confidence)
        THEN "confidence" :> Round3(step.confidence[1]) ELSE EmptyDict)
    @@ (IF TruthyStr(step.provider)
        THEN "provider" :> step.provider[1] ELSE EmptyDict)
    @@ (IF TruthyStr(step.error)
        THEN "error" :> step.error[1] ELSE EmptyDict)

\* [s.duration_ms for s in steps if s.duration_ms]: the durations that
\* `s.duration_ms or 0` does not replace by the int 0.
TruthyDurations(steps) ==
    LET timed == SelectSeq(steps, LAMBDA s : TruthyFloat(s.duration_ms))
    IN  [k \in 1..Len(timed) |-> timed[k].duration_ms[1]]

RECURSIVE SumDurationsFrom(_, _)
\* The float loop of sum() on durations, as SumFrom, a step on which the
\* compensation is still zero read from the table.
SumDurationsFrom(acc, xs) ==
    IF xs = <<>> THEN SumFrom(acc, xs)
    ELSE IF acc.c.m # <<>> THEN SumFrom(acc, xs)
    ELSE SumDurationsFrom(Looked(DurationSums, <<acc.f_result, Head(xs)>>,
                                 SumStep(acc.f_result, acc.c, Head(xs),
                                         FloatAdd(acc.f_result, Head(xs)))),
                          Tail(xs))

\* sum(durations): the ints 0 add nothing, the floats are summed as sum()
\* sums floats.
SumDurations(xs) ==
    IF xs = <<>> THEN FloatZero
    ELSE SumDurationsFrom([f_result |-> Head(xs), c |-> FloatZero], Tail(xs))

\* total = sum(s.duration_ms or 0 for s in self.steps)
TotalDuration(steps) == SumDurations(TruthyDurations(steps))

\* The pipeline_id of the context (the first characters of the task id).
PipelineId == "3f2a9c1e"

\* PipelineContext.get_summary
get_summary(steps) ==
    [pipeline_id |-> PipelineId,
     total_duration_ms |-> Round2Float(TotalDuration(steps)),
     steps |-> [i \in DOMAIN steps |-> to_dict(steps[i])]]

\* What the body of a tracked scope raises: str(e) is the message.
TrackExceptions ==
    {[type |-> "ValueError", message |-> "bad value"],
     [type |-> "IOError", message |-> ""]}

StepNames == {"ocr", "quality"}

\* What a caller attaches to step.confidence and to step.provider.
AttachedConfidences == {FloatZero, Tenths(9), FloatDiv(49, 80)}

AttachedProviders == {"paddleocr"}

\* One PipelineContext and the scopes open on it: steps is ctx.steps, now
\* the last reading of the clock, open the
\* indices of the steps whose scopes are entered and not left (innermost
\* last), exc the exception in flight at the current position of the
\* caller, if any.
ContextIdle ==
    [steps |-> <<>>, now |-> 0, open |-> <<>>, exc |-> None]

\* The step of the innermost open scope.
Innermost(c) == c.open[Len(c.open)]

\* track up to the yield, the clock read tick after its last reading: a
\* running step is appended to the steps.
Entered(c, name, tick) ==
    [c EXCEPT !.steps = Append(@, StepMetrics(name, c.now + tick)),
              !.now = @ + tick,
              !.open = Append(@, Len(c.steps) + 1)]

\* track after the yield when the body ended without an exception: the
\* step is completed if it is still running, the clock read tick after its
\* last reading.
Exited(c, tick) ==
    LET i == Innermost(c)
    IN  [c EXCEPT !.steps[i] = IF @.status = "running"
                                THEN complete(@, None, c.now + tick)
                                ELSE @,
                  !.now = IF c.steps[i].status = "running" THEN @ + tick
                          ELSE @,
                  !.open = SubSeq(@, 1, Len(@) - 1)]

\* An except clause that marks the step failed and swallows the exception.
ExceptedSwallowing(c, tick) ==
    [c EXCEPT !.steps[Innermost(c)] = fail(@, c.exc[1].message, c.now + tick),
              !.now = @ + tick,
              !.open = SubSeq(@, 1, Len(@) - 1),
              !.exc = None]

\* track's except clause: step.fail(str(e)); raise.
Excepted(c, tick) ==
    [c EXCEPT !.steps[Innermost(c)] = fail(@, c.exc[1].message, c.now + tick),
              !.now = @ + tick,
              !.open = SubSeq(@, 1, Len(@) - 1)]

\* with ctx.track(name) as step: the scope is entered.
TrackEnter ==
    /\ ctx.exc = None
    /\ Len(ctx.steps) < MaxSteps
    /\ \E name \in StepNames, tick \in Ticks : ctx' = Entered(ctx, name, tick)

\* step.confidence = c, in the body of the innermost scope.
AttachConfidence ==
    /\ ctx.exc = None
    /\ ctx.open # <<>>
    /\ ctx.steps[Innermost(ctx)].confidence = None
    /\ \E c \in AttachedConfidences :
          ctx' = [ctx EXCEPT !.steps[Innermost(ctx)].confidence = Some(c)]

\* step.provider = p, in the body of the innermost scope.
AttachProvider ==
    /\ ctx.exc = None
    /\ ctx.open # <<>>
    /\ ctx.steps[Innermost(ctx)].provider = None
    /\ \E p \in AttachedProviders :
          ctx' = [ctx EXCEPT !.steps[Innermost(ctx)].provider = Some(p)]

\* The body of the innermost scope raises.
BodyRaises ==
    /\ ctx.exc = None
    /\ ctx.open # <<>>
    /\ \E e \in TrackExceptions : ctx' = [ctx EXCEPT !.exc = Some(e)]

\* The caller catches the exception in flight: a try/except in the body of
\* the innermost scope, or around the outermost one.
CallerCatches ==
    /\ ctx.exc # None
    /\ ctx' = [ctx EXCEPT !.exc = None]

\* The body of the innermost scope ends without an exception.
TrackExit ==
    /\ ctx.exc = None
    /\ ctx.open # <<>>
    /\ \E tick \in Ticks : ctx' = Exited(ctx, tick)

\* An exception leaves the body of the innermost scope.
TrackExcept ==
    /\ ctx.exc # None
    /\ ctx.open # <<>>
    /\ \E tick \in Ticks : ctx' = Excepted(ctx, tick)

(***************************************************************************)
(* extract_invoice_task (app/tasks/worker.py).  The run uses ctx as its    *)
(* PipelineContext, assess for the call of the OCR agent and decide for    *)
(* the call of the decision agent; the OCR service is taken by what        *)
(* extract_with_fallback returns or raises, the text of its result by the  *)
(* counts of its characters.                                               *)
(***************************************************************************)
Stages == <<"ocr", "quality", "extraction", "validation">>

\* The microseconds between one reading of the clock and the next in a run:
\* the clock of a run is scripted, every stage taking a millisecond; the
\* readings of a free clock are those of Ticks.
TaskTicks == {1000}

ExtractionResult(status, data, ocr_text, validations, agent_decision, error, pipeline_metrics) ==
    [status |-> status, data |-> data, ocr_text |-> ocr_text,
     validations |-> validations, agent_decision |-> agent_decision,
     error |-> error, pipeline_metrics |-> pipeline_metrics]

\* ExtractionResult(status="error", error=..., ...): the fields not passed
\* are None.
ErrorResult(error, ocr_text, pipeline_metrics) ==
    ExtractionResult("error", None, ocr_text, None, None, Some(error),
                     pipeline_metrics)

\* The texts an OCR stage returns: empty, whitespace alone, a short one
\* without digits, and one the heuristic checks find nothing in.
TaskTexts ==
    {OCRText(0, 0, 0, 0), OCRText(0, 0, 10, 0), OCRText(0, 30, 0, 0),
     OCRText(5, 30, 10, 15)}

\* What OCRService().extract_with_fallback(path) does: raise, or return a
\* result.  A file that was unlinked during the call gives the
\* FileNotFoundError of the last attempt of extract if the attempts that
\* look for it come after the deletion, and else what the call gives on a
\* file that is there.
OcrStageOutcomes(exists) ==
    (IF exists THEN {} ELSE {ServiceRaise(FileNotFoundMessage)})
    \cup {ServiceRaise("All OCR providers failed")}
    \cup {ServiceReturn(OCRResult(t, Tenths(9), "en", "paddleocr")) :
              t \in TaskTexts}

\* The exception of an agent constructor (the model backend cannot be
\* set up).
AgentSetupError == [type |-> "UserError", message |-> "model backend not configured"]

\* The frame of one run: pc the position, exists whether the input path
\* exists, the locals ocr_result, quality and decision, the components
\* invoked so far, the stage at which the run failed if it did, the result
\* record returned (ret) or the exception that left the task (exc).
TaskIdle ==
    [pc |-> "idle", exists |-> FALSE, ocr_result |-> None, quality |-> None,
     decision |-> None, invoked |-> <<>>, failed |-> None, ret |-> None,
     exc |-> None]

\* A run and its context, as the operators below return them.
Run(t, c) == [task |-> t, ctx |-> c]

\* The run ends with the result record.
TaskReturned(t, result) == [t EXCEPT !.pc = "done", !.ret = Some(result)]

\* if not path.exists(): the error result, without the metrics.
FileNotFound(t, c) ==
    Run([TaskReturned(t, ErrorResult("File not found", None, None))
            EXCEPT !.failed = Some("input")], c)

\* with ctx.track("ocr") as step: extract_with_fallback is called.
OcrStarted(t, c, tick) ==
    Run([t EXCEPT !.pc = "ocr", !.invoked = Append(@, "ocr")],
        Entered(c, "ocr", tick))

\* An OCR stage whose failure is logged and the run goes on.
OcrFailedGoesOn(t, c, o, tick) ==
    Run([t EXCEPT !.pc = "quality", !.failed = Some("ocr"),
                  !.ocr_result = Some(OCRResult(OCRText(5, 30, 10, 15),
                                                FloatZero, "en", "paddleocr"))],
        Exited(c, tick))

\* except Exception as e, in the OCR scope: the error result with the
\* summary taken inside the scope, which the return then leaves normally.
OcrFailed(t, c, o, tick) ==
    Run([TaskReturned(t, ErrorResult(o.error, None, Some(get_summary(c.steps))))
            EXCEPT !.failed = Some("ocr")],
        Exited(c, tick))

\* A check for no text that lets whitespace through.
NoTextIfEmpty(text) == TextLen(text) = 0

\* if not ocr_result.text.strip()
NoText(text) == IsBlank(text)

\* The OCR scope after extract_with_fallback returned: provider and
\* confidence are attached, the scope is left, and the text is checked.
OcrReturned(t, c, o, tick) ==
    LET r == o.result
        attached == [c EXCEPT
                        !.steps[Innermost(c)].provider = Some(r.provider),
                        !.steps[Innermost(c)].confidence =
                            Some(r.confidence)]
        left == Exited(attached, tick)
        got == [t EXCEPT !.ocr_result = Some(r)]
    IN  IF NoText(r.text)
        THEN Run([TaskReturned(got, ErrorResult("No text extracted", None,
                                             Some(get_summary(left.steps))))
                     EXCEPT !.failed = Some("text")],
                 left)
        ELSE Run([got EXCEPT !.pc = "quality"], left)

\* OCRAgent() raises inside the quality scope: track marks the step failed
\* and the exception leaves the task.
QualitySetupFailed(t, c, tick, tock) ==
    LET left == Excepted([Entered(c, "quality", tick)
                             EXCEPT !.exc = Some(AgentSetupError)], tock)
    IN  Run([t EXCEPT !.pc = "done", !.failed = Some("quality"),
                      !.exc = Some(AgentSetupError)],
            left)

\* with ctx.track("quality") as step: assess_quality is called.
QualityStarted(t, c, tick) ==
    Run([t EXCEPT !.pc = "assessing", !.invoked = Append(@, "quality")],
        Entered(c, "quality", tick))

\* The quality scope after assess_quality returned: the confidence is
\* attached and the scope is left; the assessment is not looked at.
QualityReturned(t, c, assessment, tick) ==
    LET attached == [c EXCEPT !.steps[Innermost(c)].confidence =
                                  Some(assessment.confidence)]
    IN  Run([t EXCEPT !.pc = "extraction", !.quality = Some(assessment)],
            Exited(attached, tick))

\* except Exception as e, in the extraction scope: the error result with
\* the OCR text and the summary taken inside the scope.
ExtractionFailed(t, c, error, tick) ==
    Run([TaskReturned(t, ErrorResult(error, Some(t.ocr_result[1].text),
                                  Some(get_summary(c.steps))))
            EXCEPT !.failed = Some("extraction")],
        Exited(c, tick))

\* with ctx.track("extraction") as step: decide is called.
ExtractionStarted(t, c) ==
    Run([t EXCEPT !.pc = "deciding", !.invoked = Append(@, "extraction")], c)

\* The extraction scope after decide returned: the confidence is attached
\* and the scope is left.
ExtractionReturned(t, c, decision, tick) ==
    LET attached == [c EXCEPT !.steps[Innermost(c)].confidence =
                                  Some(decision.confidence)]
    IN  Run([t EXCEPT !.pc = "validation", !.decision = Some(decision)],
            Exited(attached, tick))

\* A faulty variant of Validated: the summary is taken inside the validation
\* scope.
ValidatedInsideScope(t, c, tick, tock) ==
    LET decision == t.decision[1]
        validations == validate_invoice(decision.result)
        inside == Entered(c, "validation", tick)
    IN  Run(TaskReturned([t EXCEPT !.invoked = Append(@, "validation")],
                      ExtractionResult("ok", Some(decision.result),
                                       Some(t.ocr_result[1].text),
                                       Some(validations), Some(decision), None,
                                       Some(get_summary(inside.steps)))),
            Exited(inside, tock))

\* The validation scope and the return of the ok result.
Validated(t, c, tick, tock) ==
    LET decision == t.decision[1]
        validations == validate_invoice(decision.result)
        left == Exited(Entered(c, "validation", tick), tock)
    IN  Run(TaskReturned([t EXCEPT !.invoked = Append(@, "validation")],
                      ExtractionResult("ok", Some(decision.result),
                                       Some(t.ocr_result[1].text),
                                       Some(validations), Some(decision), None,
                                       Some(get_summary(left.steps)))),
            left)

\* extract_invoice_task(file_path) up to the call of the OCR service.
TaskCall ==
    /\ task.pc = "idle"
    /\ \E tick \in TaskTicks :
          LET run == IF task.exists THEN OcrStarted(task, ctx, tick)
                     ELSE FileNotFound(task, ctx)
          IN  task' = run.task /\ ctx' = run.ctx

\* delete_invoice(job_id) of app/main.py on the job of the run's file, an
\* upload stored with the suffix of an image: the file is unlinked, at
\* whatever stage the run is.
DeleteTaskInvoice ==
    /\ task.exists
    /\ task' = [task EXCEPT !.exists = FALSE]

\* extract_with_fallback returns or raises.
TaskOcrReturns ==
    /\ task.pc = "ocr"
    /\ \E o \in OcrStageOutcomes(task.exists), tick \in TaskTicks :
          LET run == IF o.kind = "raise" THEN OcrFailed(task, ctx, o, tick)
                     ELSE OcrReturned(task, ctx, o, tick)
          IN  task' = run.task /\ ctx' = run.ctx

\* The quality scope is entered: OCRAgent() is constructed, and
\* assess_quality called on the OCR result.
TaskQualityCall ==
    /\ task.pc = "quality"
    /\ \E constructed \in BOOLEAN, tick \in TaskTicks, tock \in TaskTicks :
          IF constructed
          THEN LET run == QualityStarted(task, ctx, tick)
               IN  /\ task' = run.task
                   /\ ctx' = run.ctx
                   /\ assess' = [QualityIdle EXCEPT
                                    !.text = task.ocr_result[1].text,
                                    !.confidence = task.ocr_result[1].confidence]
          ELSE LET run == QualitySetupFailed(task, ctx, tick, tock)
               IN  task' = run.task /\ ctx' = run.ctx /\ UNCHANGED assess

\* assess_quality returned.
TaskQualityReturns ==
    /\ task.pc = "assessing"
    /\ assess.pc = "done"
    /\ \E tick \in TaskTicks :
          LET run == QualityReturned(task, ctx, assess.ret[1], tick)
          IN  task' = run.task /\ ctx' = run.ctx

\* The extraction scope is entered: DecisionAgent() is constructed, and
\* decide called on the OCR text.
TaskExtractionCall ==
    /\ task.pc = "extraction"
    /\ \E constructed \in BOOLEAN, tick \in TaskTicks, tock \in TaskTicks :
          IF constructed
          THEN LET run == ExtractionStarted(task, Entered(ctx, "extraction", tick))
               IN  /\ task' = run.task
                   /\ ctx' = run.ctx
                   /\ DecideCall
                   /\ decide'.blank = NoText(task.ocr_result[1].text)
          ELSE LET run == ExtractionFailed(task, Entered(ctx, "extraction", tick),
                                           AgentSetupError.message, tock)
               IN  task' = run.task /\ ctx' = run.ctx /\ UNCHANGED decide

\* decide returned or raised.
TaskExtractionReturns ==
    /\ task.pc = "deciding"
    /\ decide.pc = "done"
    /\ \E tick \in TaskTicks :
          LET run == IF decide.ret.kind = "raise"
                     THEN ExtractionFailed(task, ctx, decide.ret.error, tick)
                     ELSE ExtractionReturned(task, ctx, decide.ret.decision, tick)
          IN  task' = run.task /\ ctx' = run.ctx

\* The validation scope, and the return of the result.
TaskValidation ==
    /\ task.pc = "validation"
    /\ \E tick \in TaskTicks, tock \in TaskTicks :
          LET run == Validated(task, ctx, tick, tock)
          IN  task' = run.task /\ ctx' = run.ctx

(***************************************************************************)
(* The engine caches of the OCR providers (PaddleOCRProvider._instances,   *)
(* EasyOCRProvider._readers in app/services/ocr/providers.py): class       *)
(* attributes shared by every call, read and written without a lock.       *)
(***************************************************************************)
\* The number of threads that call extract.
MaxThreads == 2

Threads == 1..MaxThreads

Languages == {"en", "tr"}

\* The caches by <<provider, language>>.
EngineKeys == {<<Providers[i], lang>> : i \in DOMAIN Providers, lang \in Languages}

\* A thread before its call.
\* A thread before its call: constructed is the engine the thread
\* constructed, engine the one it read from the cache and used (0: none).
ThreadIdle == [pc |-> "idle", key |-> <<"", "">>, constructed |-> 0, engine |-> 0]

\* The caches (instances: key to the number of the engine stored), the
\* engines constructed so far per key, and the threads.
EnginesIdle ==
    [instances |-> EmptyDict,
     built |-> [key \in EngineKeys |-> 0],
     threads |-> [t \in Threads |-> ThreadIdle]]

\* A thread calls extract(image_path, lang) on a provider.
ExtractEnter ==
    \E t \in Threads, key \in EngineKeys :
        /\ engines.threads[t].pc = "idle"
        /\ engines' = [engines EXCEPT !.threads[t] =
                          [ThreadIdle EXCEPT !.pc = "check", !.key = key]]

\* if lang not in self._instances
CacheCheck ==
    \E t \in Threads :
        /\ engines.threads[t].pc = "check"
        /\ engines' = [engines EXCEPT !.threads[t].pc =
                          IF engines.threads[t].key \in DOMAIN engines.instances
                          THEN "use" ELSE "build"]

\* PaddleOCR(lang=lang, ...), the right-hand side of the assignment: an
\* engine is constructed; the cache is as it was.
EngineConstruct ==
    \E t \in Threads :
        LET key == engines.threads[t].key
            number == engines.built[key] + 1
        IN  /\ engines.threads[t].pc = "build"
            /\ engines' = [engines EXCEPT
                              !.built[key] = number,
                              !.threads[t].constructed = number,
                              !.threads[t].pc = "store"]

\* self._instances[lang] = <the engine constructed>: the engine is stored
\* under the key, over what another thread stored there since the check.
EngineStore ==
    \E t \in Threads :
        /\ engines.threads[t].pc = "store"
        /\ engines' = [engines EXCEPT
                          !.instances = (engines.threads[t].key
                                             :> engines.threads[t].constructed) @@ @,
                          !.threads[t].pc = "use"]

\* ocr = self._instances[lang]; ocr.predict(image_path)
EngineUse ==
    \E t \in Threads :
        /\ engines.threads[t].pc = "use"
        /\ engines' = [engines EXCEPT
                          !.threads[t].pc = "done",
                          !.threads[t].engine =
                              engines.instances[engines.threads[t].key]]

(***************************************************************************)
(* The specifications: one per component, the other frames left idle.      *)
(***************************************************************************)
IdleFrames ==
    /\ chain = ChainIdle(DefaultMinConfidence)
    /\ retry = RetryIdle(1, 1, 1, {"Exception"})
    /\ fallback = FallbackIdle({"Exception"}, FALSE, FALSE)
    /\ decide = DecideIdle
    /\ scoring = ScoringIdle
    /\ service = ServiceIdle(InputFile(FALSE, FALSE, 0, FALSE))
    /\ assess = QualityIdle
    /\ retry_params = RetryParamsIdle
    /\ ctx = ContextIdle
    /\ task = TaskIdle
    /\ engines = EnginesIdle

InitChain ==
    /\ \E m \in MinConfidenceValues : chain = ChainIdle(m)
    /\ retry = RetryIdle(1, 1, 1, {"Exception"})
    /\ fallback = FallbackIdle({"Exception"}, FALSE, FALSE)
    /\ decide = DecideIdle
    /\ scoring = ScoringIdle
    /\ service = ServiceIdle(InputFile(FALSE, FALSE, 0, FALSE))
    /\ assess = QualityIdle
    /\ retry_params = RetryParamsIdle
    /\ ctx = ContextIdle
    /\ task = TaskIdle
    /\ engines = EnginesIdle

NextChain ==
    \/ ChainExtract
           /\ UNCHANGED <<retry, fallback, decide, scoring, service, assess,
                          retry_params, ctx, task, engines>>
    \/ ChainTryProvider
           /\ UNCHANGED <<retry, fallback, decide, scoring, service, assess,
                          retry_params, ctx, task, engines>>

SpecChain == InitChain /\ [][NextChain]_vars

InitRetry ==
    /\ chain = ChainIdle(DefaultMinConfidence)
    /\ \E m \in 0..MaxAttemptsBound, d \in 1..MaxDelay, b \in 1..MaxBackoff,
          e \in ExceptionTuples : retry = RetryIdle(m, d, b, e)
    /\ fallback = FallbackIdle({"Exception"}, FALSE, FALSE)
    /\ decide = DecideIdle
    /\ scoring = ScoringIdle
    /\ service = ServiceIdle(InputFile(FALSE, FALSE, 0, FALSE))
    /\ assess = QualityIdle
    /\ retry_params = RetryParamsIdle
    /\ ctx = ContextIdle
    /\ task = TaskIdle
    /\ engines = EnginesIdle

NextRetry ==
    \/ RetryCall
           /\ UNCHANGED <<chain, fallback, decide, scoring, service, assess,
                          retry_params, ctx, task, engines>>
    \/ RetryAttempt
           /\ UNCHANGED <<chain, fallback, decide, scoring, service, assess,
                          retry_params, ctx, task, engines>>
    \/ RetrySlept
           /\ UNCHANGED <<chain, fallback, decide, scoring, service, assess,
                          retry_params, ctx, task, engines>>

SpecRetry == InitRetry /\ [][NextRetry]_vars

InitFallback ==
    /\ chain = ChainIdle(DefaultMinConfidence)
    /\ retry = RetryIdle(1, 1, 1, {"Exception"})
    /\ \E e \in ExceptionTuples, fc \in BOOLEAN, bc \in BOOLEAN :
          fallback = FallbackIdle(e, fc, bc)
    /\ decide = DecideIdle
    /\ scoring = ScoringIdle
    /\ service = ServiceIdle(InputFile(FALSE, FALSE, 0, FALSE))
    /\ assess = QualityIdle
    /\ retry_params = RetryParamsIdle
    /\ ctx = ContextIdle
    /\ task = TaskIdle
    /\ engines = EnginesIdle

NextFallback ==
    \/ FallbackCall
           /\ UNCHANGED <<chain, retry, decide, scoring, service, assess,
                          retry_params, ctx, task, engines>>
    \/ FallbackFunc
           /\ UNCHANGED <<chain, retry, decide, scoring, service, assess,
                          retry_params, ctx, task, engines>>
    \/ FallbackFn
           /\ UNCHANGED <<chain, retry, decide, scoring, service, assess,
                          retry_params, ctx, task, engines>>

SpecFallback == InitFallback /\ [][NextFallback]_vars

InitDecide == IdleFrames

NextDecide ==
    \/ DecideCall
           /\ UNCHANGED <<chain, retry, fallback, scoring, service, assess,
                          retry_params, ctx, task, engines>>
    \/ DecideSingle
           /\ UNCHANGED <<chain, retry, fallback, scoring, service, assess,
                          retry_params, ctx, task, engines>>
    \/ DecideComplete
           /\ UNCHANGED <<chain, retry, fallback, scoring, service, assess,
                          retry_params, ctx, task, engines>>
    \/ DecideJudge
           /\ UNCHANGED <<chain, retry, fallback, scoring, service, assess,
                          retry_params, ctx, task, engines>>

SpecDecide == InitDecide /\ [][NextDecide]_vars

\* _select_best_llm called on its own with a list of results, as decide
\* calls it with the list it collected.
InitSelect == IdleFrames

NextSelect ==
    \/ SelectBestLlm
           /\ UNCHANGED <<chain, retry, fallback, scoring, service, assess,
                          retry_params, ctx, task, engines>>
    \/ DecideJudge
           /\ UNCHANGED <<chain, retry, fallback, scoring, service, assess,
                          retry_params, ctx, task, engines>>

SpecSelect == InitSelect /\ [][NextSelect]_vars

InitScoring ==
    /\ chain = ChainIdle(DefaultMinConfidence)
    /\ retry = RetryIdle(1, 1, 1, {"Exception"})
    /\ fallback = FallbackIdle({"Exception"}, FALSE, FALSE)
    /\ decide = DecideIdle
    /\ \E c \in Extractions : scoring = [ScoringIdle EXCEPT !.candidate = c]
    /\ service = ServiceIdle(InputFile(FALSE, FALSE, 0, FALSE))
    /\ assess = QualityIdle
    /\ retry_params = RetryParamsIdle
    /\ ctx = ContextIdle
    /\ task = TaskIdle
    /\ engines = EnginesIdle

NextScoring ==
    \/ CallValidateItemCalculation
           /\ UNCHANGED <<chain, retry, fallback, decide, service, assess,
                          retry_params, ctx, task, engines>>
    \/ CallValidateTax
           /\ UNCHANGED <<chain, retry, fallback, decide, service, assess,
                          retry_params, ctx, task, engines>>
    \/ CallValidateInvoice
           /\ UNCHANGED <<chain, retry, fallback, decide, service, assess,
                          retry_params, ctx, task, engines>>
    \/ CallCalculateScore
           /\ UNCHANGED <<chain, retry, fallback, decide, service, assess,
                          retry_params, ctx, task, engines>>

SpecScoring == InitScoring /\ [][NextScoring]_vars

InitService ==
    /\ chain = ChainIdle(DefaultMinConfidence)
    /\ retry = RetryIdle(1, 1, 1, {"Exception"})
    /\ fallback = FallbackIdle({"Exception"}, FALSE, FALSE)
    /\ decide = DecideIdle
    /\ scoring = ScoringIdle
    /\ \E f \in InputFiles : service = ServiceIdle(f)
    /\ assess = QualityIdle
    /\ retry_params = RetryParamsIdle
    /\ ctx = ContextIdle
    /\ task = TaskIdle
    /\ engines = EnginesIdle

NextService ==
    \/ ServiceCall
           /\ UNCHANGED <<chain, retry, fallback, decide, scoring, assess,
                          retry_params, ctx, task, engines>>
    \/ ExtractAttempt
           /\ UNCHANGED <<chain, retry, fallback, decide, scoring, assess,
                          retry_params, ctx, task, engines>>
    \/ ExtractSlept
           /\ UNCHANGED <<chain, retry, fallback, decide, scoring, assess,
                          retry_params, ctx, task, engines>>
    \/ DeleteInvoice
           /\ UNCHANGED <<chain, retry, fallback, decide, scoring, assess,
                          retry_params, ctx, task, engines>>
    \/ PdfPage
           /\ UNCHANGED <<chain, retry, fallback, decide, scoring, assess,
                          retry_params, ctx, task, engines>>
    \/ FallbackImage
           /\ UNCHANGED <<chain, retry, fallback, decide, scoring, assess,
                          retry_params, ctx, task, engines>>
    \/ FallbackConvert
           /\ UNCHANGED <<chain, retry, fallback, decide, scoring, assess,
                          retry_params, ctx, task, engines>>
    \/ FallbackPage
           /\ UNCHANGED <<chain, retry, fallback, decide, scoring, assess,
                          retry_params, ctx, task, engines>>

SpecService == InitService /\ [][NextService]_vars

InitPdf ==
    /\ chain = ChainIdle(DefaultMinConfidence)
    /\ retry = RetryIdle(1, 1, 1, {"Exception"})
    /\ fallback = FallbackIdle({"Exception"}, FALSE, FALSE)
    /\ decide = DecideIdle
    /\ scoring = ScoringIdle
    /\ \E f \in {g \in InputFiles : g.exists /\ g.is_pdf} : service = ServiceIdle(f)
    /\ assess = QualityIdle
    /\ retry_params = RetryParamsIdle
    /\ ctx = ContextIdle
    /\ task = TaskIdle
    /\ engines = EnginesIdle

NextPdf ==
    \/ PdfCall
           /\ UNCHANGED <<chain, retry, fallback, decide, scoring, assess,
                          retry_params, ctx, task, engines>>
    \/ PdfPage
           /\ UNCHANGED <<chain, retry, fallback, decide, scoring, assess,
                          retry_params, ctx, task, engines>>
    \/ SpecificCall
           /\ UNCHANGED <<chain, retry, fallback, decide, scoring, assess,
                          retry_params, ctx, task, engines>>
    \/ SpecificPage
           /\ UNCHANGED <<chain, retry, fallback, decide, scoring, assess,
                          retry_params, ctx, task, engines>>

SpecPdf == InitPdf /\ [][NextPdf]_vars

InitQuality ==
    /\ chain = ChainIdle(DefaultMinConfidence)
    /\ retry = RetryIdle(1, 1, 1, {"Exception"})
    /\ fallback = FallbackIdle({"Exception"}, FALSE, FALSE)
    /\ decide = DecideIdle
    /\ scoring = ScoringIdle
    /\ service = ServiceIdle(InputFile(FALSE, FALSE, 0, FALSE))
    /\ \E t \in OCRTexts, c \in AssessedConfidences :
          assess = [QualityIdle EXCEPT !.text = t, !.confidence = c]
    /\ retry_params = RetryParamsIdle
    /\ ctx = ContextIdle
    /\ task = TaskIdle
    /\ engines = EnginesIdle

NextQuality ==
    \/ AssessQuality
           /\ UNCHANGED <<chain, retry, fallback, decide, scoring, service,
                          retry_params, ctx, task, engines>>
    \/ AssessModelReturns
           /\ UNCHANGED <<chain, retry, fallback, decide, scoring, service,
                          retry_params, ctx, task, engines>>

SpecQuality == InitQuality /\ [][NextQuality]_vars

InitRetryParams ==
    /\ chain = ChainIdle(DefaultMinConfidence)
    /\ retry = RetryIdle(1, 1, 1, {"Exception"})
    /\ fallback = FallbackIdle({"Exception"}, FALSE, FALSE)
    /\ decide = DecideIdle
    /\ scoring = ScoringIdle
    /\ service = ServiceIdle(InputFile(FALSE, FALSE, 0, FALSE))
    /\ assess = QualityIdle
    /\ \E issues \in SeqsUpTo(IssueNames, MaxIssues) :
          retry_params = [RetryParamsIdle EXCEPT !.issues = issues]
    /\ ctx = ContextIdle
    /\ task = TaskIdle
    /\ engines = EnginesIdle

NextRetryParams ==
    \/ GetRetryParams
           /\ UNCHANGED <<chain, retry, fallback, decide, scoring, service,
                          assess, ctx, task, engines>>

SpecRetryParams == InitRetryParams /\ [][NextRetryParams]_vars

InitTrack == IdleFrames

NextTrack ==
    \/ TrackEnter
           /\ UNCHANGED <<chain, retry, fallback, decide, scoring, service,
                          assess, retry_params, task, engines>>
    \/ AttachConfidence
           /\ UNCHANGED <<chain, retry, fallback, decide, scoring, service,
                          assess, retry_params, task, engines>>
    \/ AttachProvider
           /\ UNCHANGED <<chain, retry, fallback, decide, scoring, service,
                          assess, retry_params, task, engines>>
    \/ BodyRaises
           /\ UNCHANGED <<chain, retry, fallback, decide, scoring, service,
                          assess, retry_params, task, engines>>
    \/ CallerCatches
           /\ UNCHANGED <<chain, retry, fallback, decide, scoring, service,
                          assess, retry_params, task, engines>>
    \/ TrackExit
           /\ UNCHANGED <<chain, retry, fallback, decide, scoring, service,
                          assess, retry_params, task, engines>>
    \/ TrackExcept
           /\ UNCHANGED <<chain, retry, fallback, decide, scoring, service,
                          assess, retry_params, task, engines>>

SpecTrack == InitTrack /\ [][NextTrack]_vars

InitTask ==
    /\ chain = ChainIdle(DefaultMinConfidence)
    /\ retry = RetryIdle(1, 1, 1, {"Exception"})
    /\ fallback = FallbackIdle({"Exception"}, FALSE, FALSE)
    /\ decide = DecideIdle
    /\ scoring = ScoringIdle
    /\ service = ServiceIdle(InputFile(FALSE, FALSE, 0, FALSE))
    /\ assess = QualityIdle
    /\ retry_params = RetryParamsIdle
    /\ ctx = ContextIdle
    /\ \E exists \in BOOLEAN : task = [TaskIdle EXCEPT !.exists = exists]
    /\ engines = EnginesIdle

\* The run, with the calls of the OCR agent and of the decision agent while
\* the run waits for them.
NextTask ==
    \/ TaskCall
           /\ UNCHANGED <<chain, retry, fallback, decide, scoring, service,
                          assess, retry_params, engines>>
    \/ DeleteTaskInvoice
           /\ UNCHANGED <<chain, retry, fallback, decide, scoring, service,
                          assess, retry_params, ctx, engines>>
    \/ TaskOcrReturns
           /\ UNCHANGED <<chain, retry, fallback, decide, scoring, service,
                          assess, retry_params, engines>>
    \/ TaskQualityCall
           /\ UNCHANGED <<chain, retry, fallback, decide, scoring, service,
                          retry_params, engines>>
    \/ AssessQuality
           /\ task.pc = "assessing"
           /\ UNCHANGED <<chain, retry, fallback, decide, scoring, service,
                          retry_params, ctx, task, engines>>
    \/ AssessModelReturns
           /\ task.pc = "assessing"
           /\ UNCHANGED <<chain, retry, fallback, decide, scoring, service,
                          retry_params, ctx, task, engines>>
    \/ TaskQualityReturns
           /\ UNCHANGED <<chain, retry, fallback, decide, scoring, service,
                          assess, retry_params, engines>>
    \/ TaskExtractionCall
           /\ UNCHANGED <<chain, retry, fallback, scoring, service, assess,
                          retry_params, engines>>
    \/ DecideSingle
           /\ task.pc = "deciding"
           /\ UNCHANGED <<chain, retry, fallback, scoring, service, assess,
                          retry_params, ctx, task, engines>>
    \/ DecideComplete
           /\ task.pc = "deciding"
           /\ UNCHANGED <<chain, retry, fallback, scoring, service, assess,
                          retry_params, ctx, task, engines>>
    \/ DecideJudge
           /\ task.pc = "deciding"
           /\ UNCHANGED <<chain, retry, fallback, scoring, service, assess,
                          retry_params, ctx, task, engines>>
    \/ TaskExtractionReturns
           /\ UNCHANGED <<chain, retry, fallback, decide, scoring, service,
                          assess, retry_params, engines>>
    \/ TaskValidation
           /\ UNCHANGED <<chain, retry, fallback, decide, scoring, service,
                          assess, retry_params, engines>>

SpecTask == InitTask /\ [][NextTask]_vars

InitEngines == IdleFrames

NextEngines ==
    \/ ExtractEnter
           /\ UNCHANGED <<chain, retry, fallback, decide, scoring, service,
                          assess, retry_params, ctx, task>>
    \/ CacheCheck
           /\ UNCHANGED <<chain, retry, fallback, decide, scoring, service,
                          assess, retry_params, ctx, task>>
    \/ EngineConstruct
           /\ UNCHANGED <<chain, retry, fallback, decide, scoring, service,
                          assess, retry_params, ctx, task>>
    \/ EngineStore
           /\ UNCHANGED <<chain, retry, fallback, decide, scoring, service,
                          assess, retry_params, ctx, task>>
    \/ EngineUse
           /\ UNCHANGED <<chain, retry, fallback, decide, scoring, service,
                          assess, retry_params, ctx, task>>

SpecEngines == InitEngines /\ [][NextEngines]_vars

\* The frames of the provider chain, the OCR service, the OCR agent and the
\* decision agent before any call.
ChainNotCalled == chain = ChainIdle(DefaultMinConfidence)

ServiceNotCalled == service = ServiceIdle(InputFile(FALSE, FALSE, 0, FALSE))

QualityNotCalled == assess = QualityIdle

DecideNotCalled == decide = DecideIdle

\* One call of one of the operations that produce a confidence: the chain,
\* extract_with_fallback of the OCR service on an image or a PDF (with its
\* secondary-language attempt), _extract_from_pdf,
\* extract_with_specific_provider, the OCR agent or the decision agent.
InitCalls == InitChain \/ InitService \/ InitPdf \/ InitQuality \/ InitDecide

OnlyChain == ServiceNotCalled /\ QualityNotCalled /\ DecideNotCalled

OnlyService == ChainNotCalled /\ QualityNotCalled /\ DecideNotCalled

OnlyQuality == ChainNotCalled /\ ServiceNotCalled /\ DecideNotCalled

OnlyDecide == ChainNotCalled /\ ServiceNotCalled /\ QualityNotCalled

NextCalls ==
    \/ ChainExtract
           /\ OnlyChain
           /\ UNCHANGED <<retry, fallback, decide, scoring, service, assess,
                          retry_params, ctx, task, engines>>
    \/ ChainTryProvider
           /\ OnlyChain
           /\ UNCHANGED <<retry, fallback, decide, scoring, service, assess,
                          retry_params, ctx, task, engines>>
    \/ ServiceCall
           /\ OnlyService
           /\ UNCHANGED <<chain, retry, fallback, decide, scoring, assess,
                          retry_params, ctx, task, engines>>
    \/ ExtractAttempt
           /\ OnlyService
           /\ UNCHANGED <<chain, retry, fallback, decide, scoring, assess,
                          retry_params, ctx, task, engines>>
    \/ ExtractSlept
           /\ OnlyService
           /\ UNCHANGED <<chain, retry, fallback, decide, scoring, assess,
                          retry_params, ctx, task, engines>>
    \/ DeleteInvoice
           /\ OnlyService
           /\ UNCHANGED <<chain, retry, fallback, decide, scoring, assess,
                          retry_params, ctx, task, engines>>
    \/ FallbackImage
           /\ OnlyService
           /\ UNCHANGED <<chain, retry, fallback, decide, scoring, assess,
                          retry_params, ctx, task, engines>>
    \/ FallbackConvert
           /\ OnlyService
           /\ UNCHANGED <<chain, retry, fallback, decide, scoring, assess,
                          retry_params, ctx, task, engines>>
    \/ FallbackPage
           /\ OnlyService
           /\ UNCHANGED <<chain, retry, fallback, decide, scoring, assess,
                          retry_params, ctx, task, engines>>
    \/ PdfCall
           /\ OnlyService
           /\ UNCHANGED <<chain, retry, fallback, decide, scoring, assess,
                          retry_params, ctx, task, engines>>
    \/ PdfPage
           /\ OnlyService
           /\ UNCHANGED <<chain, retry, fallback, decide, scoring, assess,
                          retry_params, ctx, task, engines>>
    \/ SpecificCall
           /\ OnlyService
           /\ UNCHANGED <<chain, retry, fallback, decide, scoring, assess,
                          retry_params, ctx, task, engines>>
    \/ SpecificPage
           /\ OnlyService
           /\ UNCHANGED <<chain, retry, fallback, decide, scoring, assess,
                          retry_params, ctx, task, engines>>
    \/ AssessQuality
           /\ OnlyQuality
           /\ UNCHANGED <<chain, retry, fallback, decide, scoring, service,
                          retry_params, ctx, task, engines>>
    \/ AssessModelReturns
           /\ OnlyQuality
           /\ UNCHANGED <<chain, retry, fallback, decide, scoring, service,
                          retry_params, ctx, task, engines>>
    \/ DecideCall
           /\ OnlyDecide
           /\ UNCHANGED <<chain, retry, fallback, scoring, service, assess,
                          retry_params, ctx, task, engines>>
    \/ DecideSingle
           /\ OnlyDecide
           /\ UNCHANGED <<chain, retry, fallback, scoring, service, assess,
                          retry_params, ctx, task, engines>>
    \/ DecideComplete
           /\ OnlyDecide
           /\ UNCHANGED <<chain, retry, fallback, scoring, service, assess,
                          retry_params, ctx, task, engines>>
    \/ DecideJudge
           /\ OnlyDecide
           /\ UNCHANGED <<chain, retry, fallback, scoring, service, assess,
                          retry_params, ctx, task, engines>>

SpecCalls == InitCalls /\ [][NextCalls]_vars

(***************************************************************************)
(* The properties.                                                         *)
(***************************************************************************)
RECURSIVE Pow(_, _)
Pow(b, n) == IF n <= 0 THEN 1 ELSE b * Pow(b, n - 1)

\* C1: the chain invokes its providers in list order, each at most once; a
\* provider that returned a result of confidence >= min_confidence is the last
\* one invoked in the call, and its result is what the call returns.
C1_ShortCircuitInOrder ==
    LET inv == chain.invoked
    IN  /\ Len(inv) <= Len(Providers)
        /\ \A k \in 1..Len(inv) : inv[k].provider = Providers[k]
        /\ \A k \in 1..Len(inv) :
              (inv[k].outcome.kind = "ok"
                  /\ inv[k].outcome.result.confidence >= chain.min_confidence)
              => /\ k = Len(inv)
                 /\ chain.pc = "done"
                 /\ chain.ret.kind = "return"
                 /\ chain.ret.result = inv[k].outcome.result

\* C1's case: the first provider returned 0.9 against the threshold 0.5 and
\* the call is over with one provider invoked.
C1_Witness ==
    /\ chain.pc = "done"
    /\ chain.min_confidence = 5
    /\ Len(chain.invoked) = 1
    /\ chain.invoked[1].outcome.kind = "ok"
    /\ chain.invoked[1].outcome.result.confidence = 9
    /\ chain.ret.result.provider = "paddleocr"

\* C2: a finished call raised "All OCR providers failed" exactly when every
\* provider of the list was invoked and raised; the call never ends on a
\* provider's failure before the end of the list; and when no result reached
\* the threshold but some provider returned one, the call returns a returned
\* result of the highest confidence.
C2_AggregateFailureOnlyWhenAllFail ==
    chain.pc = "done" =>
        LET inv    == chain.invoked
            n      == Len(inv)
            oks    == {k \in 1..n : inv[k].outcome.kind = "ok"}
            passed == {k \in oks :
                          inv[k].outcome.result.confidence >= chain.min_confidence}
        IN  /\ chain.ret.kind \in {"return", "raise"}
            /\ chain.ret.kind = "raise"
                  <=> (n = Len(Providers) /\ oks = {})
            /\ chain.ret.kind = "raise" => chain.ret.error = "All OCR providers failed"
            /\ inv[n].outcome.kind = "raise" => n = Len(Providers)
            /\ (passed = {} /\ oks # {})
                  => /\ n = Len(Providers)
                     /\ chain.ret.kind = "return"
                     /\ \E k \in oks : chain.ret.result = inv[k].outcome.result
                     /\ \A k \in oks : inv[k].outcome.result.confidence
                                          <= chain.ret.result.confidence

\* C2's case: the first provider raised, the second returned 0.4 against the
\* threshold 0.5, and the call returned the second provider's result.
C2_Witness ==
    /\ chain.pc = "done"
    /\ chain.min_confidence = 5
    /\ Len(chain.invoked) = 2
    /\ chain.invoked[1].outcome.kind = "raise"
    /\ chain.invoked[2].outcome.kind = "ok"
    /\ chain.invoked[2].outcome.result.confidence = 4
    /\ chain.ret.kind = "return"
    /\ chain.ret.result = chain.invoked[2].outcome.result

\* C3: the events of a with_retry call are call 1, sleep 1, call 2, ...: at
\* most max_attempts calls; a call that returned is the last event and its
\* value is returned; a failure that `exceptions` does not catch is the last
\* event and is raised; the k-th caught failure with k < max_attempts is
\* followed by a sleep of delay * backoff^(k-1), which the wrapper is in or
\* has finished, and attempt k + 1 starts only after it; the caught failure
\* of call max_attempts is the last event (no sleep) and is raised as it is.
C3_RetryAttemptsAndBackoff ==
    LET ev    == retry.events
        n     == Len(ev)
        calls == {i \in 1..n : ev[i].op = "call"}
        Caught(o) == o.kind = "raise" /\ IsCaught(o.type, retry.exceptions)
        Ends(i)   == i = n /\ retry.pc = "done" /\ retry.ret = ev[i].outcome
        Sleeping(i, k) == /\ i = n
                          /\ retry.pc = "sleep"
                          /\ retry.attempt = k
                          /\ retry.last_exception = ev[i].outcome
                          /\ retry.current_delay
                                 = retry.delay * Pow(retry.backoff, k - 1)
    IN  /\ Cardinality(calls) <= retry.max_attempts
        /\ retry.pc = "sleep" => n >= 1 /\ ev[n].op = "call"
        /\ \A i \in 1..n : (i % 2 = 1) <=> (ev[i].op = "call")
        /\ \A i \in 1..n :
              ev[i].op = "sleep"
              => /\ Caught(ev[i - 1].outcome)
                 /\ i \div 2 < retry.max_attempts
                 /\ ev[i].seconds = retry.delay * Pow(retry.backoff, (i \div 2) - 1)
        /\ \A i \in calls :
              LET k == (i + 1) \div 2
              IN  /\ ev[i].outcome.kind \in {"return", "raise"}
                  /\ ev[i].outcome.kind = "raise" => ev[i].outcome.id = k
                  /\ ev[i].outcome.kind = "return" => Ends(i)
                  /\ (ev[i].outcome.kind = "raise" /\ ~Caught(ev[i].outcome)) => Ends(i)
                  /\ (Caught(ev[i].outcome) /\ k < retry.max_attempts)
                        => \/ i < n /\ ev[i + 1].op = "sleep"
                           \/ Sleeping(i, k)
                  /\ (Caught(ev[i].outcome) /\ k >= retry.max_attempts) => Ends(i)
        /\ (retry.pc = "done" /\ retry.max_attempts >= 1) => n >= 1

\* C3's case: three attempts allowed, all three failed with a caught failure:
\* sleeps of delay and delay * backoff, and the third failure raised.
C3_Witness ==
    /\ retry.pc = "done"
    /\ retry.max_attempts = 3 /\ retry.delay = 2 /\ retry.backoff = 2
    /\ Len(retry.events) = 5
    /\ retry.events[2].seconds = 2
    /\ retry.events[4].seconds = 4
    /\ retry.ret.kind = "raise"
    /\ retry.ret.id = 3

\* C4: func is called once, first, with the wrapper's arguments; fallback_fn
\* is called only after func raised a failure that `exceptions` catches, once,
\* with the same arguments, and what it returns or raises is what the wrapper
\* returns or raises; any other outcome of func is the wrapper's outcome.
C4_FallbackOnceSameArguments ==
    LET calls == fallback.calls
        n     == Len(calls)
        Caught(o) == o.kind = "raise" /\ IsCaught(o.type, fallback.exceptions)
    IN  /\ n <= 2
        /\ n >= 1 => calls[1].fn = "func" /\ calls[1].args = fallback.args
        /\ n = 2 => /\ calls[2].fn = "fallback_fn"
                    /\ calls[2].args = fallback.args
                    /\ Caught(calls[1].outcome)
        /\ fallback.pc = "fallback_fn" => n = 1 /\ Caught(calls[1].outcome)
        /\ fallback.pc = "done"
              => /\ n >= 1
                 /\ Caught(calls[1].outcome) => n = 2 /\ fallback.ret = calls[2].outcome
                 /\ ~Caught(calls[1].outcome) => n = 1 /\ fallback.ret = calls[1].outcome

\* C4's case: func raised a caught failure, fallback_fn was called with the
\* same arguments and raised, and that failure is the wrapper's.
C4_Witness ==
    /\ fallback.pc = "done"
    /\ Len(fallback.calls) = 2
    /\ fallback.calls[1].outcome.kind = "raise"
    /\ fallback.calls[2].args = fallback.args
    /\ fallback.calls[2].outcome.kind = "raise"
    /\ fallback.ret = fallback.calls[2].outcome

\* Every backend is invoked once, and the futures that completed left in
\* `results` exactly the (source, candidate) pairs of those that succeeded.
BackendsInvokedOnceResultsKept ==
    LET n == Len(decide.extractors)
    IN  /\ decide.invoked = decide.extractors
        /\ \A i, j \in 1..n : i # j => decide.extractors[i] # decide.extractors[j]
        /\ \A i \in (1..n) \ decide.pending :
              /\ decide.outcomes[i].kind \in {"ok", "raise"}
              /\ decide.outcomes[i].kind = "ok"
                    => \E k \in 1..Len(decide.results) :
                           decide.results[k] =
                               [source |-> decide.extractors[i],
                                extraction |-> decide.outcomes[i].extraction]
              /\ decide.outcomes[i].kind = "raise"
                    => \A k \in 1..Len(decide.results) :
                           decide.results[k].source # decide.extractors[i]
        /\ Len(decide.results) =
               Cardinality({i \in (1..n) \ decide.pending :
                               decide.outcomes[i].kind = "ok"})

\* C5, as stated: every configured backend is invoked exactly once, a failed
\* backend drops only its own pair, and a finished decide raised "All
\* extraction attempts failed" exactly when no candidate was collected.
C5_FailsWithAggregateIffNoCandidate ==
    /\ BackendsInvokedOnceResultsKept
    /\ decide.pc = "done"
          => ((decide.ret.kind = "raise"
                  /\ decide.ret.error = "All extraction attempts failed")
              <=> decide.results = <<>>)

\* C5, amended: as above, but a finished decide failed exactly when no
\* candidate was collected, with "All extraction attempts failed" when two or
\* more backends are configured and with the backend's own failure when
\* exactly one is.
C5_FailsIffNoCandidate ==
    /\ BackendsInvokedOnceResultsKept
    /\ decide.pc = "done"
          => /\ decide.ret.kind \in {"return", "raise"}
             /\ decide.ret.kind = "raise" <=> decide.results = <<>>
             /\ decide.ret.kind = "raise"
                   => decide.ret.error =
                          IF Len(decide.extractors) >= 2
                          THEN "All extraction attempts failed"
                          ELSE "backend error"

\* C5's case: of two backends one failed and the other's candidate was
\* collected and selected.
C5_Witness ==
    /\ decide.pc = "done"
    /\ Len(decide.extractors) = 2
    /\ decide.outcomes[1].kind = "raise"
    /\ decide.outcomes[2].kind = "ok"
    /\ Len(decide.results) = 1
    /\ decide.ret.kind = "return"
    /\ decide.ret.decision.selected_source = OllamaSource

\* The scores of the collected candidates, and whether the two highest are
\* less than 0.15 apart.
ResultScores == [i \in 1..Len(decide.results) |->
                    calculate_score(decide.results[i].extraction)]

TopTwoClose ==
    LET sc     == ResultScores
        best   == CHOOSE i \in 1..Len(sc) :
                      \A j \in 1..Len(sc) : FloatLeq(sc[j], sc[i])
        second == CHOOSE j \in (1..Len(sc)) \ {best} :
                      \A k \in (1..Len(sc)) \ {best} : FloatLeq(sc[k], sc[j])
    IN  FloatLess(FloatSub(sc[best], sc[second]), Hundredths(15))

\* The decision selects a collected candidate of the highest score, with that
\* score as its confidence.
SelectsHighestScore(d) ==
    \E i \in 1..Len(decide.results) :
        /\ \A j \in 1..Len(decide.results) :
               FloatLeq(ResultScores[j], ResultScores[i])
        /\ d.selected_source = decide.results[i].source
        /\ d.result = decide.results[i].extraction
        /\ d.confidence = ResultScores[i]

\* C6: once two or more candidates are collected, the judge has been called
\* once if the two highest scores are less than 0.15 apart and not at all
\* otherwise; without the judge the decision is the highest-scoring candidate
\* with its score as confidence; what the judge returned is the decision.
C6_JudgeIffScoresClose ==
    (Len(decide.results) >= 2 /\ decide.pc \in {"judge", "done"})
    => /\ Len(decide.judge_calls) = IF TopTwoClose THEN 1 ELSE 0
       /\ ~TopTwoClose
             => /\ decide.pc = "done"
                /\ decide.judge_outcome.kind = "none"
                /\ decide.ret.kind = "return"
                /\ SelectsHighestScore(decide.ret.decision)
       /\ (TopTwoClose /\ decide.pc = "done")
             => /\ decide.judge_outcome.kind \in {"ok", "raise"}
                /\ decide.judge_outcome.kind = "ok"
                      => decide.ret = DecisionReturned(decide.judge_outcome.decision)

\* C6's case: candidates scoring 0.72 and 0.70, the judge called once and
\* its output returned.
C6_Witness ==
    /\ decide.pc = "done"
    /\ Len(decide.results) = 2
    /\ {ResultScores[1], ResultScores[2]} = {Hundredths(72), Tenths(7)}
    /\ Len(decide.judge_calls) = 1
    /\ decide.judge_outcome.kind = "ok"
    /\ decide.ret.decision = decide.judge_outcome.decision

\* C7: when the judge call raised, decide returns the collected candidate of
\* the highest score with that score as confidence.
C7_JudgeFailureFallsBackToScore ==
    (decide.pc = "done" /\ decide.judge_outcome.kind = "raise")
    => /\ decide.ret.kind = "return"
       /\ SelectsHighestScore(decide.ret.decision)

\* C7's case: 0.70 completed first, 0.72 second, the judge raised and the
\* 0.72 candidate was returned.
C7_Witness ==
    /\ decide.pc = "done"
    /\ decide.judge_outcome.kind = "raise"
    /\ Len(decide.results) = 2
    /\ ResultScores[1] = Tenths(7)
    /\ ResultScores[2] = Hundredths(72)
    /\ decide.ret.decision.result = decide.results[2].extraction
    /\ decide.ret.decision.confidence = Hundredths(72)

\* C8, as stated: every returned Decision names the source of a candidate
\* collected in the call and carries that same candidate.
C8_DecisionIsACollectedCandidate ==
    (decide.pc = "done" /\ decide.ret.kind = "return")
    => \E i \in 1..Len(decide.results) :
           /\ decide.ret.decision.selected_source = decide.results[i].source
           /\ decide.ret.decision.result = decide.results[i].extraction

\* The completion orders of n futures.
Orders(n) == {p \in [1..n -> 1..n] : \A i, j \in 1..n : i # j => p[i] # p[j]}

RECURSIVE CollectedInOrder(_, _)
\* `results` after the first k futures of `order` completed, with the
\* outcomes the backends had in this call.
CollectedInOrder(order, k) ==
    IF k = 0 THEN <<>>
    ELSE CollectResult(CollectedInOrder(order, k - 1),
                       decide.extractors[order[k]], decide.outcomes[order[k]])

\* C9, as stated: with the outcomes the backends had, every completion order
\* takes decide to the same branch with the same judge call (the same
\* candidates in the same roles) and, when the judge is not consulted or
\* raises, to the same selected_source and result.
C9_CompletionOrderIrrelevant ==
    (Len(decide.extractors) >= 2 /\ decide.pc \in {"judge", "done"})
    => \A order \in Orders(Len(decide.extractors)) :
           LET results == CollectedInOrder(order, Len(decide.extractors))
               alt     == Arbitrate([decide EXCEPT !.pc = "parallel",
                                                   !.judge_calls = <<>>,
                                                   !.ret = NoDecisionYet],
                                    results)
               final   == IF alt.pc = "done" THEN alt.ret
                          ELSE DecisionReturned(select_best_heuristic(results))
           IN  /\ alt.judge_calls = decide.judge_calls
               /\ (decide.pc = "done" /\ decide.judge_outcome.kind # "ok")
                     => /\ final.kind = decide.ret.kind
                        /\ final.decision.selected_source
                               = decide.ret.decision.selected_source
                        /\ final.decision.result = decide.ret.decision.result

HeaderFieldNames ==
    {"invoice_number", "date", "supplier_name", "total_amount", "currency"}

ItemFieldNames == {"product_name", "quantity", "unit_price", "total_price"}

NonNullHeaderFields(c) ==
    Cardinality({f \in HeaderFieldNames : c.general_fields[f] # None})

NonNullItemFields(c) ==
    Cardinality({p \in (1..Len(c.items)) \X ItemFieldNames :
                    c.items[p[1]][p[2]] # None})

ValidItemVerdicts(report) ==
    Cardinality({i \in 1..Len(report.item_calculations) :
                    report.item_calculations[i].valid})

\* 200 * n times the sum the score is the minimum of with 1.0, n the item
\* count (1 for no item): 0.3 * h / 5 + [0.2 + 0.1 * f / (4 * n)] + V.
ScoreSum200n(c) ==
    LET n      == Len(c.items)
        d      == IF n = 0 THEN 1 ELSE n
        report == validate_invoice(c)
    IN  12 * NonNullHeaderFields(c) * d
        + (IF n > 0 THEN 40 * n + 5 * NonNullItemFields(c) ELSE 0)
        + (IF report.all_valid THEN 80 * d
           ELSE (IF n > 0 THEN 40 * ValidItemVerdicts(report) ELSE 0)
                + (IF report.tax_validation.valid THEN 40 * d ELSE 0))

\* The magnitude of the double x is the fraction p / q to within 2^-50, for
\* x below 2 and 0 < q < Limb: the two are equal up to the rounding of a few
\* float operations.
NearFraction(x, p, q) ==
    IF x.m = <<>> THEN p = 0
    ELSE LET scaled  == BigTimes(x.m, q)
             exact   == BigShl(Big(p), -x.e)
             between == IF BigCmp(scaled, exact) >= 0 THEN BigSub(scaled, exact)
                        ELSE BigSub(exact, scaled)
         IN  BigCmp(between, BigShl(Big(q), -x.e - 50)) <= 0

\* C11: for every candidate _calculate_score returns a value, which is
\* min(1, 0.3 * (non-null header fields / 5) + [items non-empty: 0.2 + 0.1 *
\* (non-null item fields / (4 * item count))] + V), V being 0.4 for an overall
\* valid report and else 0.2 * (valid item verdicts / item count) plus 0.2 for
\* a valid tax verdict; the value lies in [0, 1].  The value is a float: it is
\* that sum up to the rounding of the additions.
C11_ScoreIsTheWeightedSum ==
    (scoring.pc = "done" /\ scoring.call = "_calculate_score") =>
        LET c == scoring.candidate
            d == IF Len(c.items) = 0 THEN 1 ELSE Len(c.items)
        IN  /\ scoring.ret # None
            /\ ~scoring.ret[1].neg
            /\ FloatLeq(scoring.ret[1], FloatOne)
            /\ NearFraction(scoring.ret[1], Min(200 * d, ScoreSum200n(c)), 200 * d)

\* A scored candidate of two items, one of them with a wrong total, whose tax
\* verdict is invalid: every term of the sum is at work.
C11_Witness ==
    /\ scoring.pc = "done" /\ scoring.call = "_calculate_score"
    /\ Len(scoring.candidate.items) = 2
    /\ ~validate_invoice(scoring.candidate).all_valid
    /\ ~validate_invoice(scoring.candidate).tax_validation.valid
    /\ ValidItemVerdicts(validate_invoice(scoring.candidate)) = 1
    /\ NonNullHeaderFields(scoring.candidate) = 3
    /\ NearFraction(scoring.ret[1], 58, 100)

\* The item a validate_item_calculation call was made on.
ValidatedItem == scoring.candidate.items[scoring.index + 1]

\* C12: validate_item_calculation gives valid and skipped for an item with a
\* null quantity, unit_price or total_price; for an item with all three
\* non-null, whatever their value (zero included), the verdict is computed:
\* expected = round(quantity * unit_price, 2), actual = round(total_price, 2),
\* valid iff |expected - actual| < 0.01.
C12_ItemVerdictComputedWhenAllPresent ==
    (scoring.pc = "done" /\ scoring.call = "validate_item_calculation") =>
        LET item == ValidatedItem
            v    == scoring.ret[1]
        IN  IF item.quantity = None \/ item.unit_price = None
               \/ item.total_price = None
            THEN v.valid /\ v.skipped
            ELSE LET expected == Round2(FloatMul(Hundredths(item.quantity[1]),
                                                 Hundredths(item.unit_price[1])))
                     actual   == Round2(Hundredths(item.total_price[1]))
                     between  == FloatAbs(FloatSub(Hundredths(expected),
                                                   Hundredths(actual)))
                 IN  /\ ~v.skipped
                     /\ v.expected = Some(expected)
                     /\ v.actual = Some(actual)
                     /\ v.valid <=> FloatLess(between, Hundredths(1))

\* C13: validate_tax gives valid and skipped exactly when the subtotal of the
\* present total_price values is <= 0 or total_amount is null; otherwise it is
\* valid with vat_applied=true if |round(subtotal * (1 + rate), 2) -
\* total_amount| < 1.0, else valid with vat_applied=false if |subtotal -
\* total_amount| < 1.0, else invalid, reporting subtotal, expected-with-tax
\* and total.
C13_TaxVerdictSkippedIffNoSubtotalOrNoTotal ==
    (scoring.pc = "done" /\ scoring.call = "validate_tax") =>
        LET subtotal == FloatSum(PresentTotalPrices(scoring.candidate.items))
            total    == scoring.candidate.general_fields.total_amount
            v        == scoring.ret[1]
        IN  IF FloatLeq(subtotal, FloatZero) \/ total = None
            THEN v.valid /\ v.skipped
            ELSE LET rate     == FloatAdd(FloatOne, Hundredths(scoring.tax_rate))
                     with_tax == Round2(FloatMul(subtotal, rate))
                     tax_diff == FloatAbs(FloatSub(Hundredths(with_tax),
                                                   Hundredths(total[1])))
                     no_tax   == FloatAbs(FloatSub(subtotal, Hundredths(total[1])))
                 IN  /\ ~v.skipped
                     /\ IF FloatLess(tax_diff, FloatOne)
                        THEN v.valid /\ v.vat_applied = Some(TRUE)
                        ELSE IF FloatLess(no_tax, FloatOne)
                        THEN v.valid /\ v.vat_applied = Some(FALSE)
                        ELSE /\ ~v.valid
                             /\ v.items_subtotal = Some(subtotal)
                             /\ v.expected_with_tax = Some(with_tax)
                             /\ v.actual_total = Some(total[1])

\* C14: validate_invoice returns one item verdict per item, in item order, the
\* verdict of the item at (0-based) position i carrying item_index = i;
\* all_valid is true iff every item verdict and the tax verdict are valid.
C14_OneVerdictPerItemInOrder ==
    (scoring.pc = "done" /\ scoring.call = "validate_invoice") =>
        LET items  == scoring.candidate.items
            report == scoring.ret[1]
        IN  /\ DOMAIN report.item_calculations = 1..Len(items)
            /\ \A i \in 1..Len(items) :
                  /\ report.item_calculations[i].item_index = i - 1
                  /\ report.item_calculations[i]
                         = validate_item_calculation(items[i], i - 1)
            /\ report.tax_validation = validate_tax(scoring.candidate, DefaultTaxRate)
            /\ report.all_valid
                   <=> /\ \A i \in 1..Len(items) : report.item_calculations[i].valid
                       /\ report.tax_validation.valid

\* A report on two different items, the first invalid, the second skipped:
\* the verdicts are in item order.  The tax verdict is valid.
C14_Witness ==
    /\ scoring.pc = "done" /\ scoring.call = "validate_invoice"
    /\ scoring.candidate.items = <<WrongItem, BlankItem>>
    /\ ~scoring.ret[1].item_calculations[1].valid
    /\ scoring.ret[1].item_calculations[2].skipped
    /\ scoring.ret[1].tax_validation.valid
    /\ ~scoring.ret[1].all_valid

(***************************************************************************)
(* OCRService (SpecService, SpecPdf).                                      *)
(***************************************************************************)
\* extract_with_fallback returned, `result` being what self.extract gave.
FallbackReturned ==
    /\ service.op = "extract_with_fallback" /\ service.pc = "done"
    /\ service.ret.kind = "return"

SecondaryCalls ==
    {i \in 1..Len(service.chain_calls) : service.chain_calls[i].lang = "tr"}

\* The secondary-language attempt ran to its end without raising: the one
\* chain call on an image, the rasterization and every page of a PDF of at
\* least one page.
SecondarySucceeded ==
    IF service.file.is_pdf
    THEN service.image_paths # <<>>
         /\ Len(service.all_texts) = Len(service.image_paths)
    ELSE SecondaryCalls # {} /\ service.last.kind = "return"

\* The text and the confidence the secondary-language attempt came to.
SecondaryText ==
    IF service.file.is_pdf THEN Join(service.all_texts, PageBreak)
    ELSE service.last.result.text

SecondaryConfidence(n) ==
    IF service.file.is_pdf THEN FloatDivInt(service.total_confidence, n)
    ELSE ConfidenceDoubles[service.last.result.confidence]

\* 0.7, the min_confidence_threshold of the settings.
SevenTenths == Tenths(7)

\* C16: extract_with_fallback runs the secondary-language attempt only when
\* the first result's confidence is below min_confidence_threshold; it returns
\* the secondary-language result (retry_count 1) iff that attempt succeeded
\* with a confidence strictly higher than the first result's, and otherwise,
\* a failure of the attempt included, the first result unchanged (retry_count
\* 0).
C16_SecondaryOnlyBelowThresholdAndOnlyIfBetter ==
    /\ (service.pc \in {"tr_image", "tr_convert", "tr_pages"} \/ SecondaryCalls # {})
           => FloatLess(service.result.confidence, SevenTenths)
    /\ FallbackReturned =>
          LET first == service.result
              n     == IF service.file.is_pdf /\ service.image_paths # <<>>
                       THEN Len(service.image_paths) ELSE 1
              ret   == service.ret.result
          IN  IF /\ FloatLess(first.confidence, SevenTenths)
                 /\ SecondarySucceeded
                 /\ FloatLess(first.confidence, SecondaryConfidence(n))
              THEN /\ ret.text = SecondaryText
                   /\ ret.confidence = SecondaryConfidence(n)
                   /\ ret.language = "tr"
                   /\ ret.retry_count = 1
              ELSE ret = first /\ ret.retry_count = 0

\* A two-page PDF whose secondary-language mean beat the first mean by the
\* rounding of a sum alone: the first pages 0.2 and 0.7 with the mean
\* 0.44999999999999996, the secondary pages 0.9 and 0.0 with the mean 0.45.
C16_Witness ==
    /\ FallbackReturned
    /\ service.file.is_pdf /\ service.file.pages = 2
    /\ FloatLess(service.result.confidence, Tenths(7))
    /\ FloatLess(Hundredths(44), service.result.confidence)
    /\ FloatLess(service.result.confidence, Hundredths(45))
    /\ service.ret.result.retry_count = 1
    /\ service.ret.result.confidence = Hundredths(45)
    /\ service.ret.result.text = "text" \o PageBreak \o ""

\* _extract_from_pdf or extract_with_fallback returned or raised.
ServiceDone == service.pc = "done"

\* C17: every temporary image file created by rasterizing a PDF is deleted by
\* the time the PDF operation returns or raises, whether all pages succeeded,
\* a page's chain failed or the rasterization failed after some page files
\* were written (a file whose deletion fails aside).
C17_NoTemporaryFileLeft ==
    (ServiceDone /\ ~service.file.unlink_fails) => service.files = {}

\* C18 (state part): when _extract_from_pdf ends on a PDF of n >= 1 pages
\* the chain was run once on each page image in page order; a returned result
\* has the page texts joined in page order with the page-break marker, the
\* mean of the page confidences as confidence (the total of the doubles
\* divided by n; in thousandths, n times the mean is the total but for the
\* rounding) and the provider of the chain result (of the last page) plus
\* "+pdf" as provider; it raises if a page's chain raised.
PdfResult ==
    (/\ service.op = "_extract_from_pdf" /\ ServiceDone
     /\ service.image_paths # <<>>) =>
        LET n     == Len(service.image_paths)
            pages == Len(service.chain_calls)
        IN  /\ \A i \in 1..pages :
                  service.chain_calls[i]
                      = [lang |-> "en", path |-> service.image_paths[i]]
            /\ service.last.kind = "raise" => service.ret.kind = "raise"
            /\ service.ret.kind = "raise" => service.last.kind = "raise"
            /\ service.ret.kind = "return" =>
                  /\ n = service.file.pages /\ pages = n
                  /\ Len(service.all_texts) = n
                  /\ service.ret.result.text = Join(service.all_texts, PageBreak)
                  /\ service.ret.result.confidence
                         = FloatDivInt(service.total_confidence, n)
                  /\ Abs(n * Round3(service.ret.result.confidence)
                             - Round3(service.total_confidence)) < n
                  /\ service.ret.result.provider
                         = service.last.result.provider \o "+pdf"

\* C18 (step part): each page's chain result appends its text to the page
\* texts and adds its confidence to the total, which start empty and at 0.
PdfPageAccumulates ==
    /\ (service.pc = "pdf_pages" /\ service.all_texts = <<>>)
           => service.total_confidence = FloatZero
    /\ (service.pc = "pdf_pages" /\ service'.last.kind = "return") =>
           /\ service'.all_texts
                  = Append(service.all_texts, service'.last.result.text)
           /\ service'.total_confidence
                  = FloatAdd(service.total_confidence,
                             ConfidenceDoubles[service'.last.result.confidence])

\* C18: for a PDF of n >= 1 pages _extract_from_pdf runs the chain on each
\* page in page order, one after the other, and returns the page texts joined
\* in page order with the page-break marker, the arithmetic mean of the page
\* confidences and the winning provider plus "+pdf"; it fails if any page's
\* chain fails.
C18_PdfPagesInOrderMeanConfidence == []PdfResult /\ [][PdfPageAccumulates]_vars

\* A two-page PDF read: the pages differ in text, confidence and provider.
C18_Witness ==
    /\ service.op = "_extract_from_pdf" /\ ServiceDone
    /\ service.ret.kind = "return"
    /\ service.all_texts = <<"", "text">>
    /\ service.ret.result.text = "" \o PageBreak \o "text"
    /\ service.ret.result.confidence = Hundredths(45)
    /\ service.ret.result.provider = "easyocr+pdf"

(***************************************************************************)
(* OCRAgent.assess_quality (SpecQuality).                                  *)
(***************************************************************************)
\* The heuristic issues that hold of a text.
HeuristicIssues(text) ==
    (IF TextLen(text) < 50 THEN {"text_too_short"} ELSE {})
    \cup (IF text.digits = 0 THEN {"no_numbers"} ELSE {})
    \cup (IF 10 * text.specials > 3 * TextLen(text)
          THEN {"excessive_special_chars"} ELSE {})

AssessReturned == assess.pc = "done" /\ assess.ret # None

\* C19: assess_quality never calls the model backend when the text is empty
\* (nothing but whitespace: it returns poor, confidence 0.0, a default retry
\* parameter) or when at least two of the heuristic issues text_too_short
\* (< 50 chars), no_numbers, excessive_special_chars (ratio > 0.3) hold (it
\* returns poor, confidence 0.3, those issues and parameters derived from
\* them); with zero or one heuristic issue it calls the backend exactly once.
C19_ModelSkippedOnEmptyOrTwoIssues ==
    /\ assess.pc = "idle" => assess.model_calls = 0
    /\ assess.pc # "idle" =>
          LET text   == assess.text
              issues == HeuristicIssues(text)
          IN  IF IsBlank(text)
              THEN /\ assess.model_calls = 0 /\ AssessReturned
                   /\ assess.ret[1].quality = "poor"
                   /\ assess.ret[1].confidence = FloatZero
                   /\ assess.ret[1].should_retry
                   /\ assess.ret[1].suggested_params = Some("det_db_thresh" :> 20)
              ELSE IF Cardinality(issues) >= 2
              THEN /\ assess.model_calls = 0 /\ AssessReturned
                   /\ assess.ret[1].quality = "poor"
                   /\ assess.ret[1].confidence = Tenths(3)
                   /\ Len(assess.ret[1].issues) = Cardinality(issues)
                   /\ {assess.ret[1].issues[i] : i \in 1..Len(assess.ret[1].issues)}
                          = issues
                   /\ assess.ret[1].suggested_params
                          = Some(get_retry_params(assess.ret[1].issues))
              ELSE assess.model_calls = 1

\* A text of 70 characters with no digit and a share of special characters
\* above 0.3 (two issues) was assessed without the backend.
C19_Witness ==
    /\ AssessReturned
    /\ assess.text = OCRText(0, 30, 10, 30)
    /\ assess.model_calls = 0
    /\ assess.ret[1].issues = <<"no_numbers", "excessive_special_chars">>
    /\ assess.ret[1].suggested_params
           = Some(("det_db_thresh" :> 35) @@ ("det_db_unclip_ratio" :> 200))

\* C20: when the model backend call fails, assess_quality returns: quality
\* good iff the OCR confidence is > 0.7 (poor otherwise), confidence the OCR
\* confidence, issues [assessment_failed], should_retry iff the OCR
\* confidence is < 0.5.
C20_ModelFailureGivesConfidenceBasedAssessment ==
    (assess.pc = "done" /\ assess.model_outcome.kind = "raise") =>
        /\ assess.ret # None
        /\ assess.ret[1].quality = "good"
               <=> FloatLess(Tenths(7), assess.confidence)
        /\ assess.ret[1].quality = "poor"
               <=> FloatLeq(assess.confidence, Tenths(7))
        /\ assess.ret[1].confidence = assess.confidence
        /\ assess.ret[1].issues = <<"assessment_failed">>
        /\ assess.ret[1].should_retry <=> FloatLess(assess.confidence, Tenths(5))

\* The backend failed on a result of confidence exactly 0.7: poor, no retry.
C20_Witness ==
    /\ assess.pc = "done" /\ assess.model_outcome.kind = "raise"
    /\ assess.confidence = Tenths(7)
    /\ assess.ret[1].quality = "poor"
    /\ ~assess.ret[1].should_retry

\* The positions of the issue list whose issue the table knows.
KnownAt(issues) == {i \in DOMAIN issues : issues[i] \in DOMAIN OCR_RETRY_PARAMS}

\* The positions of the issue list whose table entry sets parameter k.
SetsAt(issues, k) ==
    {i \in KnownAt(issues) : k \in DOMAIN OCR_RETRY_PARAMS[issues[i]]}

\* The last position of a non-empty set of positions.
LastOf(positions) == CHOOSE i \in positions : \A j \in positions : j <= i

\* C21: _get_retry_params returns the union of the table's parameter sets
\* of the reported issues, a parameter set by several issues taking the
\* value of the issue later in the list; when no reported issue is in the
\* table it returns the single generic det_db_thresh adjustment of 0.3; the
\* result is never empty.
C21_RetryParamsUnionLaterWins ==
    retry_params.pc = "done" =>
        LET issues == retry_params.issues
            ret == retry_params.ret
        IN  /\ ret # EmptyDict
            /\ KnownAt(issues) = {} => ret = ("det_db_thresh" :> 30)
            /\ KnownAt(issues) # {} =>
                   /\ DOMAIN ret =
                          UNION {DOMAIN OCR_RETRY_PARAMS[issues[i]] :
                                     i \in KnownAt(issues)}
                   /\ \A k \in DOMAIN ret :
                          ret[k] = OCR_RETRY_PARAMS[
                                       issues[LastOf(SetsAt(issues, k))]][k]

\* Two issues that set det_db_thresh differently: the later one's value is
\* returned, next to the parameter only the earlier one sets.
C21_Witness ==
    /\ retry_params.pc = "done"
    /\ retry_params.issues = <<"excessive_special_chars", "text_too_short">>
    /\ retry_params.ret = ("det_db_thresh" :> 20) @@ ("det_db_unclip_ratio" :> 200)

(***************************************************************************)
(* PipelineContext.track (SpecTrack).                                      *)
(***************************************************************************)
\* A step of the context on which the innermost scope is left.
ScopeLeft == ctx.open # <<>> /\ ctx'.open = SubSeq(ctx.open, 1, Len(ctx.open) - 1)

\* A failure leaves the innermost scope: the step ends failed with the
\* message of the failure, and the same failure is in flight afterwards.
FailureMarksAndPropagates ==
    (ScopeLeft /\ ctx.exc # None) =>
        /\ ctx'.steps[Innermost(ctx)].status = "failed"
        /\ ctx'.steps[Innermost(ctx)].error = Some(ctx.exc[1].message)
        /\ ctx'.exc = ctx.exc

\* The innermost scope is left without a failure: the step ends completed.
NormalExitCompletes ==
    (ScopeLeft /\ ctx.exc = None) =>
        ctx'.steps[Innermost(ctx)].status = "completed"

\* The steps keep their places, and a scope that is entered adds its step
\* at the end; the status of a step whose scope was left stays.
StepsInEntryOrder ==
    /\ Len(ctx'.steps) >= Len(ctx.steps)
    /\ \A i \in DOMAIN ctx.steps :
          /\ ctx'.steps[i].name = ctx.steps[i].name
          /\ ctx'.steps[i].started_at = ctx.steps[i].started_at
          /\ ctx.steps[i].status # "running" =>
                 ctx'.steps[i].status = ctx.steps[i].status
    /\ Len(ctx'.steps) > Len(ctx.steps) =>
          /\ Len(ctx'.steps) = Len(ctx.steps) + 1
          /\ ctx'.open = Append(ctx.open, Len(ctx'.steps))

\* The steps are listed by time of entry, none before an earlier one (two
\* readings of the clock can be equal), and the running
\* steps are those of the open scopes.
StepsListedByEntry ==
    /\ \A i, j \in DOMAIN ctx.steps :
          i < j => ctx.steps[i].started_at <= ctx.steps[j].started_at
    /\ \A i \in DOMAIN ctx.steps :
          ctx.steps[i].status = "running" <=>
              \E k \in DOMAIN ctx.open : ctx.open[k] = i

\* C22: when a failure escapes a tracked scope the step ends with status
\* failed and the failure's message as its error, and the same failure
\* propagates to the caller of the scope; when the scope exits normally the
\* step ends with status completed; the steps are in the context's list in
\* the order their scopes were entered.
C22_TrackMarksStepsAndPropagates ==
    /\ []StepsListedByEntry
    /\ [][FailureMarksAndPropagates /\ NormalExitCompletes
          /\ StepsInEntryOrder]_vars

\* A first scope was left normally, a second one by a failure that is now
\* in flight at the caller of the scope.
C22_Witness ==
    /\ Len(ctx.steps) = 2
    /\ ctx.open = <<>>
    /\ ctx.steps[1].status = "completed"
    /\ ctx.steps[2].status = "failed"
    /\ ctx.steps[2].error = Some("bad value")
    /\ ctx.exc = Some([type |-> "ValueError", message |-> "bad value"])

\* C23: a confidence or provider the caller attached to the step inside a
\* tracked scope is still on the step record after the scope exits
\* normally, and reported by the summary: completing the step changes only
\* its duration and status.
C23_AttachedValuesSurviveCompletion ==
    [][(ScopeLeft /\ ctx.exc = None) =>
          LET before == ctx.steps[Innermost(ctx)]
              after == ctx'.steps[Innermost(ctx)]
          IN  /\ after.confidence = before.confidence
              /\ after.provider = before.provider
              /\ TruthyFloat(before.confidence) =>
                     "confidence" \in DOMAIN get_summary(ctx'.steps).steps[
                                                 Innermost(ctx)]]_vars

(***************************************************************************)
(* extract_invoice_task (SpecTask).                                        *)
(***************************************************************************)
\* The names of the steps of the context, in the order of the list.
StepNamesOf(steps) == [i \in DOMAIN steps |-> steps[i].name]

IsPrefix(s, t) == Len(s) <= Len(t) /\ s = SubSeq(t, 1, Len(s))

\* The number of stages started when the run fails at the given point.
StagesStartedAt(point) ==
    CASE point = "input" -> 0
      [] point = "ocr" -> 1
      [] point = "text" -> 1
      [] point = "quality" -> 2
      [] point = "extraction" -> 3

\* C24: in one run the stages execute strictly in the order OCR, quality,
\* extraction, validation, each starting only after the previous one has
\* finished; the step list is always a prefix of (ocr, quality, extraction,
\* validation), and no stage is started after a stage that failed fatally.
C24_StagesInOrderNoneAfterFailure ==
    /\ IsPrefix(StepNamesOf(ctx.steps), Stages)
    /\ IsPrefix(task.invoked, Stages)
    /\ \A i \in DOMAIN ctx.steps :
          i < Len(ctx.steps) => ctx.steps[i].status # "running"
    /\ task.failed # None =>
          /\ task.pc = "done"
          /\ Len(ctx.steps) = StagesStartedAt(task.failed[1])

\* A run that went through the four stages and returned ok.
C24_Witness ==
    /\ task.pc = "done"
    /\ task.ret # None
    /\ task.ret[1].status = "ok"
    /\ StepNamesOf(ctx.steps) = Stages
    /\ task.invoked = Stages

\* C25: every fatal failure of a run ends it with a result record of status
\* error that carries an error message and the pipeline metrics summary
\* collected so far; no failure raised inside a stage leaves
\* extract_invoice_task without such a result, and status ok is returned
\* only when no stage failed.
C25_EveryFailureEndsInErrorResult ==
    task.pc = "done" =>
        /\ task.exc = None
        /\ task.ret # None
        /\ task.failed # None =>
               /\ task.ret[1].status = "error"
               /\ task.ret[1].error # None
               /\ task.ret[1].pipeline_metrics # None
        /\ task.ret[1].status = "ok" => task.failed = None

\* C26: the extraction stage is started only when the quality gate judged
\* the OCR text usable: in a run whose quality assessment is poor, no
\* extraction backend is invoked.
C26_NoExtractionAfterPoorQuality ==
    (task.quality # None /\ task.quality[1].quality = "poor") =>
        /\ decide.invoked = <<>>
        /\ ~(\E i \in DOMAIN task.invoked : task.invoked[i] = "extraction")

\* C27: when the OCR stage yields empty or whitespace-only text, the run
\* ends with an error result before the quality gate: neither the quality
\* assessment nor any extraction backend is invoked in that run.
C27_BlankTextEndsRunBeforeQuality ==
    (task.ocr_result # None /\ IsBlank(task.ocr_result[1].text)) =>
        /\ task.pc = "done"
        /\ task.ret # None
        /\ task.ret[1].status = "error"
        /\ task.ret[1].error = Some("No text extracted")
        /\ task.invoked = <<"ocr">>
        /\ StepNamesOf(ctx.steps) = <<"ocr">>
        /\ assess = QualityIdle
        /\ decide = DecideIdle

\* The OCR stage returned a text of whitespace alone, and the run ended
\* with the error result.
C27_Witness ==
    /\ task.ocr_result # None
    /\ task.ocr_result[1].text = OCRText(0, 0, 10, 0)
    /\ task.pc = "done"
    /\ task.ret[1].error = Some("No text extracted")

(***************************************************************************)
(* The engine caches (SpecEngines).                                        *)
(***************************************************************************)
\* C28: under any interleaving of concurrent extract calls on a provider,
\* the engine for a given language is constructed at most once: two calls
\* that both find the language missing from the cache never both build an
\* engine for it.
C28_EngineBuiltAtMostOnce ==
    \A key \in EngineKeys : engines.built[key] <= 1

(***************************************************************************)
(* The confidences the components produce (SpecCalls).                     *)
(***************************************************************************)
\* A confidence c, in units of 1/one, lies in [0, 1].
InUnitInterval(c, one) == 0 <= c /\ c <= one

\* A double lies in [0, 1].
FloatInUnitInterval(x) == FloatLeq(FloatZero, x) /\ FloatLeq(x, FloatOne)

\* C29: provided every OCR engine reports per-call confidences in [0, 1],
\* every confidence the pipeline produces lies in [0, 1]: the chain result,
\* the per-PDF mean, the language-fallback result, every quality assessment
\* (heuristic, model and failure-fallback paths) and every decision made by
\* single-backend or score-based selection.
C29_ConfidencesInUnitInterval ==
    /\ chain.ret.kind = "return" =>
           InUnitInterval(chain.ret.result.confidence, ConfOne)
    /\ \A i \in DOMAIN chain.results :
           InUnitInterval(chain.results[i].confidence, ConfOne)
    /\ FloatLeq(FloatZero, service.total_confidence)
    /\ FloatLeq(service.total_confidence, FloatInt(MaxPages))
    /\ FloatInUnitInterval(service.result.confidence)
    /\ service.last.kind = "return" =>
           InUnitInterval(service.last.result.confidence, ConfOne)
    /\ service.ret.kind = "return" =>
           FloatInUnitInterval(service.ret.result.confidence)
    /\ assess.ret # None =>
           FloatInUnitInterval(assess.ret[1].confidence)
    /\ decide.ret.kind = "return" =>
           FloatInUnitInterval(decide.ret.decision.confidence)

\* extract_with_fallback on a PDF of MaxPages pages whose first attempt was
\* too weak: the secondary-language attempt read every page with confidence
\* 1.0 and the mean it returns is 1.0, the upper end of the interval.
C29_Witness ==
    /\ service.pc = "done"
    /\ service.op = "extract_with_fallback"
    /\ service.file.is_pdf
    /\ service.file.pages = MaxPages
    /\ Len(service.chain_calls) = 2 * MaxPages
    /\ service.chain_calls[2 * MaxPages].lang = "tr"
    /\ service.ret.kind = "return"
    /\ service.ret.result.language = "tr"
    /\ service.ret.result.confidence = FloatOne

(***************************************************************************)
(* Single-backend mode of decide (SpecDecide).                             *)
(***************************************************************************)
\* The backends of the call whose extraction succeeded.
Succeeded == {i \in DOMAIN decide.outcomes : decide.outcomes[i].kind = "ok"}

\* C30: when exactly one backend is configured, or exactly one backend
\* succeeded, decide selects that backend's candidate directly, with
\* confidence equal to that candidate's own score, and the judge is never
\* called.
C30_SingleBackendSelectedDirectly ==
    /\ Len(decide.extractors) = 1 => decide.judge_calls = <<>>
    /\ (decide.pc = "done" /\ Cardinality(Succeeded) = 1) =>
           LET i == CHOOSE k \in Succeeded : TRUE
               candidate == decide.outcomes[i].extraction
           IN  /\ decide.judge_calls = <<>>
               /\ decide.ret.kind = "return"
               /\ decide.ret.decision.selected_source = decide.extractors[i]
               /\ decide.ret.decision.result = candidate
               /\ decide.ret.decision.confidence = calculate_score(candidate)

\* Two backends were configured, the first one failed and the second one
\* returned a candidate, which decide returned with its score.
C30_Witness ==
    /\ decide.pc = "done"
    /\ Len(decide.extractors) = 2
    /\ decide.outcomes[1].kind = "raise"
    /\ decide.outcomes[2].kind = "ok"
    /\ decide.ret.kind = "return"
    /\ decide.ret.decision.selected_source = OllamaSource
    /\ decide.ret.decision.reasoning = "Only one extraction succeeded"

(***************************************************************************)
(* A missing input file (SpecService).                                     *)
(***************************************************************************)
\* C31: a missing input file is fatal for the OCR stage without retry: when
\* the path does not exist (no provider was invoked before it went
\* missing), extract surfaces the not-found failure after a single attempt,
\* with no backoff sleep and without invoking any OCR provider.
C31_MissingFileFailsWithoutRetry ==
    (/\ service.op = "extract_with_fallback"
     /\ ~service.file.exists
     /\ service.chain_calls = <<>>) =>
        /\ service.pc \in {"extract", "done"}
        /\ service.attempt = 1
        /\ service.sleeps = <<>>
        /\ service.pc = "done" => service.ret = ServiceRaise(FileNotFoundText(PathOf(service.file)))

(***************************************************************************)
(* A time limit during an engine call (SpecChain).                         *)
(***************************************************************************)
\* C32: a timeout or cancellation signal raised while an OCR engine call is
\* in progress aborts the OCR stage: no further OCR attempt is started
\* after it, and the provider chain does not absorb it (the call ends by
\* raising it).
C32_TimeoutAbortsTheChain ==
    \A k \in DOMAIN chain.invoked :
        chain.invoked[k].outcome.kind = "timeout" =>
            /\ k = Len(chain.invoked)
            /\ chain.pc = "done"
            /\ chain.ret.kind = "raise"
            /\ chain.ret.error = "SoftTimeLimitExceeded"

(***************************************************************************)
(* The result of the provider chain (SpecChain).                           *)
(***************************************************************************)
\* The invocations of the call in which the provider returned a result.
ReturnedAt == {k \in DOMAIN chain.invoked : chain.invoked[k].outcome.kind = "ok"}

\* C33: whatever path the chain takes (short-circuit or exhaustion), the
\* result it returns has the maximum confidence among all the results the
\* providers returned during the call, and on equal maximum confidence the
\* result of the earlier provider in the list is the one returned.
C33_ChainReturnsFirstMaximum ==
    (chain.pc = "done" /\ chain.ret.kind = "return") =>
        \E k \in ReturnedAt :
            /\ chain.ret.result = chain.invoked[k].outcome.result
            /\ chain.ret.result.provider = Providers[k]
            /\ \A j \in ReturnedAt :
                   /\ chain.invoked[j].outcome.result.confidence
                          <= chain.ret.result.confidence
                   /\ j < k => chain.invoked[j].outcome.result.confidence
                                   < chain.ret.result.confidence

\* Both providers returned confidence 0.4 against the threshold 0.5: the
\* call returned the result of the first one.
C33_Witness ==
    /\ chain.pc = "done"
    /\ chain.min_confidence = 5
    /\ ReturnedAt = {1, 2}
    /\ chain.invoked[1].outcome.result.confidence = 4
    /\ chain.invoked[2].outcome.result.confidence = 4
    /\ chain.ret.kind = "return"
    /\ chain.ret.result.provider = "paddleocr"

(***************************************************************************)
(* The metrics summary of a result record (SpecTask).                      *)
(***************************************************************************)
\* The step dicts of the summary a result record carries.
SummarySteps(result) == result.pipeline_metrics[1].steps

\* C34: in every result record returned by extract_invoice_task, the
\* metrics summary contains no step with status running: the stage whose
\* failure produced the error result is recorded as failed with the
\* failure's message, and every earlier stage is recorded as completed.
C34_NoRunningStepInAnyResult ==
    (task.ret # None /\ task.ret[1].pipeline_metrics # None) =>
        LET result == task.ret[1]
            steps == SummarySteps(result)
            n == Len(steps)
        IN  /\ \A i \in 1..n : steps[i]["status"] # "running"
            /\ (task.failed # None /\ task.failed[1] \in {"ocr", "extraction"}) =>
                   /\ steps[n]["status"] = "failed"
                   /\ "error" \in DOMAIN steps[n]
                   /\ steps[n]["error"] = result.error[1]
                   /\ \A i \in 1..(n - 1) : steps[i]["status"] = "completed"

(***************************************************************************)
(* Retry parameters of an assessment (SpecQuality).                        *)
(***************************************************************************)
\* C35: every assessment returned by assess_quality with should_retry true
\* carries a non-empty suggested_params mapping, on all four paths (empty
\* text, heuristic short-circuit, model assessment, model-failure fallback).
C35_RetryCarriesSuggestedParams ==
    (assess.pc = "done" /\ assess.ret[1].should_retry) =>
        /\ assess.ret[1].suggested_params # None
        /\ assess.ret[1].suggested_params[1] # EmptyDict

(***************************************************************************)
(* The provider tag of a returned result (SpecService).                    *)
(***************************************************************************)
\* A tag names a provider: the provider's name, alone or with the "+pdf"
\* suffix of _extract_from_pdf.
TagNames(tag, provider) == tag = provider \/ tag = provider \o "+pdf"

\* C36: the provider tag of a result returned by extract_with_fallback names
\* a provider that produced part of its text; when the secondary-language
\* run replaced the original, a provider of the secondary-language run.
\* Stated where that run made one chain call (an image, a PDF of one page),
\* whose outcome is the whole text of the returned result.
C36_TagNamesProviderOfReturnedText ==
    (FallbackReturned /\ service.ret.result.retry_count = 1
        /\ Cardinality(SecondaryCalls) = 1) =>
        TagNames(service.ret.result.provider, service.last.result.provider)

(***************************************************************************)
(* The ok result (SpecTask).                                               *)
(***************************************************************************)
OkResult == task.ret # None /\ task.ret[1].status = "ok"

\* C37: every result with status ok has data equal to the Decision's
\* result, validations equal to validate_invoice of that data, the non-blank
\* OCR text that was given to the backends, and a summary listing exactly
\* the steps ocr, quality, extraction, validation in that order, all
\* completed.
C37_OkResultIsComplete ==
    OkResult =>
        LET result == task.ret[1]
            steps  == SummarySteps(result)
        IN  /\ decide.pc = "done" /\ decide.ret.kind = "return"
            /\ result.data = Some(decide.ret.decision.result)
            /\ result.agent_decision = Some(decide.ret.decision)
            /\ result.validations = Some(validate_invoice(result.data[1]))
            /\ result.ocr_text = Some(task.ocr_result[1].text)
            /\ ~IsBlank(result.ocr_text[1])
            /\ ~decide.blank
            /\ result.error = None
            /\ [i \in DOMAIN steps |-> steps[i].name] = Stages
            /\ \A i \in DOMAIN steps : steps[i].status = "completed"

\* An ok result whose data fail a validation rule, after an extraction in
\* which a backend failed.
C37_Witness ==
    /\ OkResult
    /\ \E i \in DOMAIN decide.outcomes : decide.outcomes[i].kind # "ok"
    /\ ~task.ret[1].validations[1].all_valid

=============================================================================
